---- MODULE Spec2Model ----
(***************************************************************************)
(* Model of the single-owner reactive engine of agility (src/src/signal.rs)*)
(* A program is a script of derivation calls (the build phase) followed by *)
(* direct writes and guard releases (the run phase).  Cells are named by   *)
(* strings; a cell value is an integer, or a sequence of values for the    *)
(* cells built by combine / extend / lift_from_array.  A cell is alive     *)
(* while the program holds a handle to it, a token of an outstanding guard *)
(* refers to it, or a strong closure captured it; weak links to a cell     *)
(* that is not alive do not resolve.  A guard release is one step: the     *)
(* tokens are dropped front to back, and each token that brings its cell's *)
(* counter to zero runs the cell's reaction functions.                     *)
(***************************************************************************)
EXTENDS Integers, Sequences, FiniteSets, TLC

VARIABLES
    scenario,             \* name of the program being run
    script,               \* derivation calls still to be executed
    value,                \* SignalInner.value, per cell
    react_fns,            \* SignalInner.react_fns, per cell (ordered)
    successors,           \* SignalInner.successors, per cell (ordered)
    predecessors,         \* SignalInner.predecessors, per cell (ordered)
    dirty,                \* SignalInner.dirty, per cell
    explicitly_modified,  \* SignalInner.explicitly_modified, per cell
    guards,               \* SignalGuards created and not yet dropped
    handles,              \* cells the program holds a Signal handle to
    last_call,            \* history: last derivation call and the values before it
    hist,                 \* history: writes and releases of the current batch
    log,                  \* history: firings (cell, value, flag seen) of the current batch
    calls,                \* history: calls of map / with closures' f in the current batch
    prev,                 \* history: tracked cells written in the batch before
    threads,              \* thread-safe twin: each thread's write and position in it
    sync,                 \* thread-safe twin, history: values at spawn, zero
                          \* crossings and firings per cell
    lib                   \* global-batch variant (lib.rs): its signals, the
                          \* GLOBAL_BATCH_STATE and its outstanding BatchGuards

vars == <<scenario, script, value, react_fns, successors, predecessors, dirty,
          explicitly_modified, guards, handles, last_call, hist, log, calls, prev,
          threads, sync, lib>>

graph == <<react_fns, successors, predecessors>>

(***************************************************************************)
(* Bounds                                                                  *)
(***************************************************************************)
\* writes (send / send_with) issued in one batch, i.e. while some guard is held
MaxWrites == 2
\* send_with is not issued on a value above this
MaxVal == 3
\* writes (send / send_with / send_now) issued in one run of the global-batch
\* variant
MaxSends == 3

(***************************************************************************)
(* Closures passed by the programs                                         *)
(***************************************************************************)
Apply(fn, x) ==
    CASE fn = "dbl"  -> x * 2
      [] fn = "half" -> x \div 2
      [] fn = "inc"  -> x + 1
      [] fn = "sum"  -> x[1] + x[2]
      [] fn = "id"   -> x
      [] fn = "unit" -> <<>>

\* U::default() of the integer cells built by contramap / promap
DefaultValue == 0

\* what a read of MaybeUninit::uninit().assume_init() may yield
UninitVals == {0, 7}

\* the mutator passed to send_with: |v| *v += 1
Mutator(x) == x + 1

(***************************************************************************)
(* Programs: derivation calls                                              *)
(***************************************************************************)
Op(op, new, src, others, fn, gn, init) ==
    [op |-> op, new |-> new, src |-> src, others |-> others,
     fn |-> fn, gn |-> gn, init |-> init]

OpNew(c, v)               == Op("new", c, "", <<>>, "", "", v)
OpMap(src, new, fn)       == Op("map", new, src, <<>>, fn, "", 0)
OpWith(src, new, fn)      == Op("with", new, src, <<>>, fn, "", 0)
OpContramap(src, new, gn) == Op("contramap", new, src, <<>>, "", gn, 0)
OpPromap(src, new, fn, gn) == Op("promap", new, src, <<>>, fn, gn, 0)
OpCombine(src, other, new) == Op("combine", new, src, <<other>>, "", "", 0)
OpExtend(src, others, new) == Op("extend", new, src, others, "", "", 0)
OpLift(items, new)        == Op("lift", new, "", items, "", "", 0)
\* src.map(move |v| { to.send(val); fn(v) }): the mapping function writes to
\* another cell and drops the guard of that write at once
OpMapSend(src, new, fn, to, val) == Op("map_send", new, src, <<to>>, fn, "", val)
\* target.depend(dependency)
OpDepend(target, dependency) == Op("depend", target, dependency, <<>>, "", "", 0)

NoCall == [op |-> Op("none", "", "", <<>>, "", "", 0), before |-> <<>>]

(***************************************************************************)
(* The programs.  script: the derivation calls in program order;           *)
(* sends: the (cell, value) pairs the program may send;                    *)
(* mutable: the cells the program may send_with;                           *)
(* droppable: the cells whose handle the program may drop;                 *)
(* extra: writes the program may add to a batch beyond MaxWrites;          *)
(* once: the program writes a cell at most once per batch;                 *)
(* track: the cells whose writes are remembered for one more batch.        *)
(***************************************************************************)
ProgX(script_, sends_, mutable_, droppable_, extra_, once_, track_) ==
    [script |-> script_, sends |-> sends_, mutable |-> mutable_,
     droppable |-> droppable_, extra |-> extra_, once |-> once_, track |-> track_]

Prog(script_, sends_, mutable_) == ProgX(script_, sends_, mutable_, {}, 0, FALSE, {})

ScenarioNames ==
    {"diamond", "chain", "combine", "map_then_combine", "combine_then_map",
     "promap", "contramap", "contra_chain", "back_fwd", "back_fwd_pro",
     "multi", "extend", "lift", "depend", "weak_drop", "strong_keep",
     "both_ways", "dead_source", "reentrant"}

Program(name) ==
    CASE name = "diamond" ->
           Prog(<<OpNew("a", 1), OpMap("a", "b", "dbl"), OpMap("a", "c", "inc"),
                  OpCombine("b", "c", "d"), OpMap("d", "od", "sum")>>,
                {<<"a", 1>>, <<"a", 2>>, <<"b", 5>>}, {})
      [] name = "chain" ->
           ProgX(<<OpNew("a", 10), OpMap("a", "b", "dbl"), OpMap("b", "c", "inc")>>,
                 {<<"a", 1>>, <<"a", 2>>, <<"b", 2>>, <<"b", 3>>}, {"b"}, {}, 0, FALSE, {"b"})
      [] name = "combine" ->
           Prog(<<OpNew("x", 1), OpNew("y", 2), OpCombine("x", "y", "c"),
                  OpMap("c", "oc", "sum")>>,
                {<<"x", 3>>, <<"x", 4>>, <<"y", 5>>}, {})
      [] name = "map_then_combine" ->
           Prog(<<OpNew("a", 1), OpNew("z", 2), OpMap("a", "b", "dbl"),
                  OpCombine("a", "z", "az")>>,
                {<<"a", 3>>, <<"a", 4>>, <<"b", 5>>}, {})
      [] name = "combine_then_map" ->
           Prog(<<OpNew("a", 1), OpNew("z", 2), OpCombine("a", "z", "az"),
                  OpWith("a", "b", "dbl")>>,
                {<<"a", 3>>, <<"a", 4>>, <<"b", 5>>}, {})
      [] name = "promap" ->
           Prog(<<OpNew("a", 10), OpPromap("a", "b", "dbl", "half")>>,
                {<<"a", 1>>, <<"a", 2>>, <<"b", 1>>, <<"b", 2>>}, {})
      [] name = "contramap" ->
           Prog(<<OpNew("a", 42), OpContramap("a", "b", "dbl")>>,
                {<<"b", 100>>, <<"b", 1>>, <<"a", 5>>}, {"b"})
      [] name = "contra_chain" ->
           Prog(<<OpNew("a", 42), OpContramap("a", "b", "inc"),
                  OpContramap("b", "s", "dbl")>>,
                {<<"b", 1>>, <<"b", 3>>, <<"s", 2>>, <<"s", 4>>}, {"s"})
      [] name = "back_fwd" ->
           Prog(<<OpNew("a", 1), OpContramap("a", "b", "dbl"), OpMap("a", "c", "inc"),
                  OpMap("c", "d", "dbl")>>,
                {<<"b", 1>>, <<"b", 2>>, <<"a", 5>>}, {})
      [] name = "back_fwd_pro" ->
           Prog(<<OpNew("a", 1), OpPromap("a", "b", "half", "dbl"),
                  OpMap("a", "c", "inc"), OpMap("c", "d", "dbl")>>,
                {<<"b", 1>>, <<"b", 2>>, <<"a", 5>>}, {})
      [] name = "multi" ->
           Prog(<<OpNew("a", 1), OpNew("b", 2), OpNew("c", 3),
                  OpCombine("a", "b", "ab"), OpCombine("a", "c", "ac")>>,
                {<<"a", 4>>, <<"a", 5>>, <<"ab", <<8, 9>>>>}, {})
      [] name = "extend" ->
           ProgX(<<OpNew("a", 1), OpNew("b", 2), OpNew("c", 3),
                   OpExtend("a", <<"b", "c">>, "d")>>,
                 {<<"a", 10>>, <<"b", 20>>, <<"c", 30>>}, {}, {}, 1, TRUE, {})
      [] name = "lift" ->
           ProgX(<<OpNew("a", 1), OpNew("b", 2), OpNew("c", 3),
                   OpLift(<<"a", "b", "c">>, "abc")>>,
                 {<<"a", 10>>, <<"b", 20>>, <<"c", 30>>}, {}, {}, 1, TRUE, {})
      [] name = "depend" ->
           Prog(<<OpNew("a", 1), OpNew("dep", 2), OpMap("a", "oa", "inc"),
                  OpMap("dep", "od", "inc"), OpDepend("a", "dep")>>,
                {<<"dep", 5>>, <<"dep", 6>>, <<"a", 7>>}, {})
      [] name = "weak_drop" ->
           ProgX(<<OpNew("a", 1), OpMap("a", "b", "dbl"), OpMap("b", "ob", "inc")>>,
                 {<<"a", 2>>, <<"a", 3>>, <<"b", 5>>}, {}, {"b"}, 0, FALSE, {})
      [] name = "strong_keep" ->
           ProgX(<<OpNew("a", 1), OpWith("a", "b", "dbl"), OpMap("b", "ob", "inc")>>,
                 {<<"a", 2>>, <<"a", 3>>, <<"b", 5>>}, {}, {"b"}, 0, FALSE, {})
      [] name = "dead_source" ->
           ProgX(<<OpNew("a", 42), OpContramap("a", "b", "dbl")>>,
                 {<<"b", 1>>, <<"b", 2>>}, {}, {"a"}, 0, FALSE, {})
      [] name = "reentrant" ->
           Prog(<<OpNew("a", 1), OpMap("a", "y", "dbl"), OpMap("y", "oy", "inc"),
                  OpMapSend("a", "z", "inc", "y", 9)>>,
                {<<"a", 1>>, <<"a", 2>>, <<"y", 5>>}, {})
      [] name = "mixed" ->
           Prog(<<OpNew("dep", 2), OpNew("x", 1), OpNew("y", 3),
                  OpCombine("x", "y", "c"), OpExtend("x", <<"y">>, "v"),
                  OpDepend("x", "dep")>>,
                {<<"dep", 5>>, <<"x", 7>>, <<"y", 9>>}, {})
      [] name = "both_ways" ->
           Prog(<<OpNew("a", 1), OpContramap("a", "r", "dbl"), OpMap("r", "s", "inc"),
                  OpMap("s", "t", "dbl")>>,
                {<<"r", 1>>, <<"r", 2>>, <<"a", 3>>}, {})

(***************************************************************************)
(* Liveness of cells (the strong count of the Rc<SignalInner>)             *)
(***************************************************************************)
\* the closures registered over all cells
AllReactions ==
    UNION {{react_fns[c][i] : i \in 1..Len(react_fns[c])} : c \in DOMAIN react_fns}

\* the closure kinds built with StrongRefStrategy
StrongKinds == {"with"}

\* mutant: strong closures keep nothing alive
Pinned_Nothing == {}

\* the cells a strong closure holds an Rc to: its source, in whose react_fns it
\* is stored, and its derived cell; the source owns the closure that owns the
\* source, so neither count ever reaches zero
Pinned ==
    UNION {{r.src, r.new} : r \in {q \in AllReactions : q.kind \in StrongKinds}}

\* the cells a mapping function captured a handle to
Captured == {r.to : r \in {q \in AllReactions : q.kind = "map_send"}}

\* the cells the tokens of the guards gs refer to (a token holds a Signal clone)
TokenCells(gs) ==
    UNION {{gs[i].tokens[j] : j \in 1..Len(gs[i].tokens)} : i \in 1..Len(gs)}

\* the cells whose strong count is above zero
Alive == handles \cup Pinned \cup Captured \cup TokenCells(guards)

(***************************************************************************)
(* Graph walk of a write (Signal::guard)                                   *)
(***************************************************************************)
\* mutant: links to freed cells are kept and followed
Retain_KeepAll(list) == list

\* collect_and_iterate: refs.retain(|s| s.is_alive()), the links then followed
Retain(list) == SelectSeq(list, LAMBDA c : c \in Alive)

\* mutant: the walk stops at the cell, its successors get no token
collect_guards_recursive_NoDescent(c) == <<c>>

RECURSIVE collect_guards_recursive(_), SuccessorsFrom(_, _)
\* one token for the cell, then the tokens of its successors, depth first
collect_guards_recursive(c) == <<c>> \o SuccessorsFrom(Retain(successors[c]), 1)
SuccessorsFrom(list, i) ==
    IF i > Len(list) THEN <<>>
    ELSE collect_guards_recursive(list[i]) \o SuccessorsFrom(list, i + 1)

RECURSIVE collect_predecessors_recursive(_), PredecessorsFrom(_, _)
\* one token for the cell, then the tokens of its predecessors, depth first
collect_predecessors_recursive(c) ==
    <<c>> \o PredecessorsFrom(Retain(predecessors[c]), 1)
PredecessorsFrom(list, i) ==
    IF i > Len(list) THEN <<>>
    ELSE collect_predecessors_recursive(list[i]) \o PredecessorsFrom(list, i + 1)

\* mutant: the predecessors are walked before the successors
collect_guards_PredecessorsFirst(c) ==
    <<c>> \o PredecessorsFrom(Retain(predecessors[c]), 1)
        \o SuccessorsFrom(Retain(successors[c]), 1)

\* the tokens of a write to c, in construction order
collect_guards(c) ==
    <<c>> \o SuccessorsFrom(Retain(successors[c]), 1)
        \o PredecessorsFrom(Retain(predecessors[c]), 1)

\* the link lists after the retain of every cell in visited
Pruned(links, visited) ==
    [c \in DOMAIN links |-> IF c \in visited THEN Retain(links[c]) ELSE links[c]]

Cells(tokens) == {tokens[i] : i \in 1..Len(tokens)}

\* mutant: only the written cell is marked dirty, not the cells the walk reaches
mark_dirty_RootOnly(d, tokens, i) ==
    [d EXCEPT ![tokens[1]] = @ + 1]

RECURSIVE mark_dirty(_, _, _)
\* the dirty counters after one increment per token
mark_dirty(d, tokens, i) ==
    IF i > Len(tokens) THEN d
    ELSE mark_dirty([d EXCEPT ![tokens[i]] = @ + 1], tokens, i + 1)

(***************************************************************************)
(* Reaction functions.  st = [value, dirty, em, log, calls, held, alive,    *)
(* depth]; r is the closure: kind, src (the derivation's source), new (the *)
(* derived cell), fn, idx.  depth counts the sends in progress inside      *)
(* reaction functions.                                                     *)
(***************************************************************************)
RECURSIVE DropGuard(_, _)

Reaction(kind, src, new, fn, idx) ==
    [kind |-> kind, src |-> src, new |-> new, fn |-> fn, idx |-> idx]

\* mutant: a captured reference always resolves
Upgrade_Always(st, c) == TRUE

\* RefStrategy::upgrade / Weak::upgrade of a captured reference to c
Upgrade(st, c) == c \in st.alive

\* history: f was called on arg to produce the value of new
Call(fn, arg, new) == [fn |-> fn, arg |-> arg, new |-> new]

\* mutant: the derived cell is recomputed even when it was explicitly modified
MapReact_IgnoreFlag(st, r) ==
    [st EXCEPT !.value[r.new] = Apply(r.fn, st.value[r.src])]

\* map / with: new := f(src) unless new was explicitly modified
MapReact(st, r) ==
    IF Upgrade(st, r.new) /\ ~st.em[r.new] /\ Upgrade(st, r.src)
    THEN [st EXCEPT !.value[r.new] = Apply(r.fn, st.value[r.src]),
                    !.calls = Append(@, Call(r.fn, st.value[r.src], r.new))]
    ELSE st

\* mutant: a send issued inside a reaction function fires the written cell at once
NestedSend_FiresAtOnce(st, to, v) ==
    LET s1 == [st EXCEPT !.value[to] = v, !.em[to] = TRUE, !.depth = @ + 1]
        s2 == DropGuard([s1 EXCEPT !.dirty[to] = 1], <<to>>)
    IN  [s2 EXCEPT !.dirty[to] = st.dirty[to], !.depth = st.depth,
                   !.held = st.held, !.alive = st.alive]

\* to.send(v) issued while a reaction function runs, the guard dropped at the
\* end of the statement: modify, set the flag, walk and mark, release
NestedSend(st, to, v) ==
    LET tokens == collect_guards(to)
        s1 == [st EXCEPT !.value[to] = v, !.em[to] = TRUE,
                         !.dirty = mark_dirty(st.dirty, tokens, 1),
                         !.held = st.alive, !.depth = @ + 1]
        s2 == DropGuard(s1, tokens)
    IN  [s2 EXCEPT !.held = st.held, !.alive = st.alive, !.depth = st.depth]

\* the map closure whose f sends r.val to r.to before it returns fn(src)
MapSendReact(st, r) ==
    IF Upgrade(st, r.new) /\ ~st.em[r.new] /\ Upgrade(st, r.src)
    THEN LET s == NestedSend(st, r.to, r.val)
         IN  [s EXCEPT !.value[r.new] = Apply(r.fn, s.value[r.src]),
                       !.calls = Append(@, Call(r.fn, s.value[r.src], r.new))]
    ELSE st

\* mutant: the backward closure pushes g(new) to the source at every firing
ContramapReact_IgnoreFlag(st, r) ==
    [st EXCEPT !.value[r.src] = Apply(r.fn, st.value[r.new]),
               !.em[r.src] = TRUE]

\* contramap: src := g(new) and src flagged, if new was explicitly modified
ContramapReact(st, r) ==
    IF Upgrade(st, r.new) /\ st.em[r.new] /\ Upgrade(st, r.src)
    THEN [st EXCEPT !.value[r.src] = Apply(r.fn, st.value[r.new]),
                    !.em[r.src] = TRUE]
    ELSE st

\* promap, forward closure (attached to src)
PromapForwardReact(st, r) ==
    IF Upgrade(st, r.new) /\ ~st.em[r.new] /\ Upgrade(st, r.src)
    THEN [st EXCEPT !.value[r.new] = Apply(r.fn, st.value[r.src])]
    ELSE st

\* promap, backward closure (attached to new)
PromapBackwardReact(st, r) ==
    IF Upgrade(st, r.new) /\ st.em[r.new] /\ Upgrade(st, r.src)
    THEN [st EXCEPT !.value[r.src] = Apply(r.fn, st.value[r.new]),
                    !.em[r.src] = TRUE]
    ELSE st

\* std::mem::swap of the source's value with slot idx of the derived cell
SwapSlot(st, src, new, idx) ==
    [st EXCEPT !.value[src] = st.value[new][idx],
               !.value[new] = [st.value[new] EXCEPT ![idx] = st.value[src]]]

\* mutant: both closures of combine exchange with the first slot
CombineReact_FirstSlot(st, r) ==
    IF ~st.em[r.new] THEN SwapSlot(st, r.src, r.new, 1) ELSE st

\* combine / and: react_fn_self (idx 1) and react_fn_another (idx 2)
CombineReact(st, r) ==
    IF Upgrade(st, r.new) /\ Upgrade(st, r.src) /\ ~st.em[r.new]
    THEN SwapSlot(st, r.src, r.new, r.idx)
    ELSE st

\* extend / follow
ExtendReact(st, r) ==
    IF Upgrade(st, r.new) /\ Upgrade(st, r.src) /\ ~st.em[r.new]
    THEN SwapSlot(st, r.src, r.new, r.idx)
    ELSE st

\* mutant: every closure of lift_from_array exchanges with the first slot
LiftReact_FirstSlot(st, r) ==
    IF ~st.em[r.new] THEN SwapSlot(st, r.src, r.new, 1) ELSE st

\* lift_from_array
LiftReact(st, r) ==
    IF Upgrade(st, r.new) /\ Upgrade(st, r.src) /\ ~st.em[r.new]
    THEN SwapSlot(st, r.src, r.new, r.idx)
    ELSE st

\* mutant: the dependency's firing leaves the target alone
DependReact_Nothing(st, r) == st

\* depend: the target (r.new) and the dependency (r.src) exchange values
DependReact(st, r) ==
    IF Upgrade(st, r.src) /\ Upgrade(st, r.new) /\ ~st.em[r.new]
    THEN [st EXCEPT !.value[r.new] = st.value[r.src],
                    !.value[r.src] = st.value[r.new]]
    ELSE st

RunReaction(st, r) ==
    CASE r.kind = "map"         -> MapReact(st, r)
      [] r.kind = "with"        -> MapReact(st, r)
      [] r.kind = "map_send"    -> MapSendReact(st, r)
      [] r.kind = "depend"      -> DependReact(st, r)
      [] r.kind = "contramap"   -> ContramapReact(st, r)
      [] r.kind = "promap_fwd"  -> PromapForwardReact(st, r)
      [] r.kind = "promap_back" -> PromapBackwardReact(st, r)
      [] r.kind = "combine"     -> CombineReact(st, r)
      [] r.kind = "extend"      -> ExtendReact(st, r)
      [] r.kind = "lift"        -> LiftReact(st, r)

RECURSIVE RunFrom_LastFirst(_, _, _)
\* mutant: the reaction functions run in the reverse of their registration order
RunFrom_LastFirst(st, fns, i) ==
    IF i > Len(fns) THEN st
    ELSE RunFrom_LastFirst(RunReaction(st, fns[Len(fns) + 1 - i]), fns, i + 1)

RECURSIVE RunFrom(_, _, _)
RunFrom(st, fns, i) ==
    IF i > Len(fns) THEN st ELSE RunFrom(RunReaction(st, fns[i]), fns, i + 1)

\* SignalExt::react: every reaction function of c, in registration order
\* (the log entry records the firing, the value and flag of c it runs against,
\* the dirty counters at that moment, and the depth of nested sends)
react(st, c) ==
    RunFrom([st EXCEPT !.log = Append(@, [cell |-> c, val |-> st.value[c],
                                          em |-> st.em[c], dirty |-> st.dirty,
                                          depth |-> st.depth])],
            react_fns[c], 1)

decrease_dirty(st, c) == [st EXCEPT !.dirty[c] = @ - 1]

\* mutant: the flag survives the firing
reset_explicitly_modified_Never(st, c) == st

reset_explicitly_modified(st, c) == [st EXCEPT !.em[c] = FALSE]

\* mutant: the reactions run at every token release, without the zero test
DropInner_EveryToken(st, c) ==
    reset_explicitly_modified(react(decrease_dirty(st, c), c), c)

\* Drop for SignalGuardInner
DropInner(st, c) ==
    LET d == decrease_dirty(st, c)
    IN  IF d.dirty[c] = 0 THEN reset_explicitly_modified(react(d, c), c) ELSE d

RECURSIVE DropFrom(_, _, _)
\* (a token keeps its cell alive until it has been dropped itself)
DropFrom(st, tokens, i) ==
    IF i > Len(tokens) THEN st
    ELSE LET rest == {tokens[j] : j \in i..Len(tokens)}
         IN  DropFrom(DropInner([st EXCEPT !.alive = st.held \cup rest], tokens[i]),
                      tokens, i + 1)

\* mutant: the drop of the Vec stops after its first token
DropGuard_FirstTokenOnly(st, tokens) == DropFrom(st, SubSeq(tokens, 1, 1), 1)

\* mutant: the Vec of tokens is dropped back to front
DropGuard_BackToFront(st, tokens) ==
    DropFrom(st, [i \in 1..Len(tokens) |-> tokens[Len(tokens) + 1 - i]], 1)

\* Drop for SignalGuard: the Vec of tokens is dropped front to back
DropGuard(st, tokens) == DropFrom(st, tokens, 1)

(***************************************************************************)
(* State after program start: no cell yet, the whole script to run         *)
(***************************************************************************)
Init ==
    /\ scenario \in ScenarioNames
    /\ script = Program(scenario).script
    /\ value = <<>>
    /\ react_fns = <<>>
    /\ successors = <<>>
    /\ predecessors = <<>>
    /\ dirty = <<>>
    /\ explicitly_modified = <<>>
    /\ guards = <<>>
    /\ handles = {}
    /\ last_call = NoCall
    /\ hist = <<>>
    /\ log = <<>>
    /\ calls = <<>>
    /\ prev = {}
    /\ threads = <<>>
    /\ sync = <<>>
    /\ lib = <<>>

NextOp == Head(script)

\* the bookkeeping every derivation call shares: the call is consumed and recorded
Called ==
    /\ script' = Tail(script)
    /\ last_call' = [op |-> NextOp, before |-> value]
    /\ UNCHANGED <<scenario, guards, hist, log, calls, prev, threads, sync, lib>>

\* Signal::new for cell c: empty lists, dirty 0, flag false
NewCell(f, c, x) == (c :> x) @@ f

\* the fields of a fresh cell c added to the per-cell maps; the caller gets
\* the one handle to it
Fresh(c) ==
    /\ dirty' = NewCell(dirty, c, 0)
    /\ explicitly_modified' = NewCell(explicitly_modified, c, FALSE)
    /\ handles' = handles \cup {c}

\* Signal::new(initial)
NewOp ==
    /\ script # <<>> /\ NextOp.op = "new"
    /\ value' = NewCell(value, NextOp.new, NextOp.init)
    /\ react_fns' = NewCell(react_fns, NextOp.new, <<>>)
    /\ successors' = NewCell(successors, NextOp.new, <<>>)
    /\ predecessors' = NewCell(predecessors, NextOp.new, <<>>)
    /\ Fresh(NextOp.new)
    /\ Called

\* Signal::map_ref: the state change of map (weak) and with (strong)
\* (kind "map" is the closure over weak references, "with" over strong ones)
map_ref(o, kind) ==
    /\ value' = NewCell(value, o.new, Apply(o.fn, value[o.src]))
    /\ react_fns' = NewCell([react_fns EXCEPT ![o.src] =
                                Append(@, Reaction(kind, o.src, o.new, o.fn, 0))],
                            o.new, <<>>)
    /\ successors' = NewCell([successors EXCEPT ![o.src] = Append(@, o.new)],
                             o.new, <<>>)
    /\ predecessors' = NewCell(predecessors, o.new, <<>>)
    /\ Fresh(o.new)

\* Signal::map
MapOp ==
    /\ script # <<>> /\ NextOp.op = "map"
    /\ map_ref(NextOp, "map")
    /\ Called

\* the state a guard is released in
DropState(held) ==
    [value |-> value, dirty |-> dirty, em |-> explicitly_modified, log |-> log,
     calls |-> calls, held |-> held, alive |-> held, depth |-> 0]

\* Signal::map with a mapping function that sends: map_ref calls f once for
\* the initial value, and that call performs the send as well
MapSendOp ==
    /\ script # <<>> /\ NextOp.op = "map_send"
    /\ LET o == NextOp
           s == NestedSend(DropState(Alive), o.others[1], o.init)
       IN  /\ value' = NewCell(s.value, o.new, Apply(o.fn, s.value[o.src]))
           /\ dirty' = NewCell(s.dirty, o.new, 0)
           /\ explicitly_modified' = NewCell(s.em, o.new, FALSE)
           /\ handles' = handles \cup {o.new}
           /\ react_fns' = NewCell([react_fns EXCEPT ![o.src] =
                                       Append(@, [kind |-> "map_send", src |-> o.src,
                                                  new |-> o.new, fn |-> o.fn, idx |-> 0,
                                                  to |-> o.others[1], val |-> o.init])],
                                   o.new, <<>>)
           /\ successors' = NewCell([successors EXCEPT ![o.src] = Append(@, o.new)],
                                    o.new, <<>>)
           /\ predecessors' = NewCell(predecessors, o.new, <<>>)
    /\ Called

\* Signal::with
WithOp ==
    /\ script # <<>> /\ NextOp.op = "with"
    /\ map_ref(NextOp, "with")
    /\ Called

\* Signal::contramap
ContramapOp ==
    /\ script # <<>> /\ NextOp.op = "contramap"
    /\ LET o == NextOp IN
       /\ value' = NewCell(value, o.new, DefaultValue)
       /\ react_fns' = NewCell(react_fns, o.new,
                               <<Reaction("contramap", o.src, o.new, o.gn, 0)>>)
       /\ successors' = NewCell(successors, o.new, <<>>)
       /\ predecessors' = NewCell(predecessors, o.new, <<o.src>>)
       /\ Fresh(o.new)
    /\ Called

\* Signal::promap
PromapOp ==
    /\ script # <<>> /\ NextOp.op = "promap"
    /\ LET o == NextOp IN
       /\ value' = NewCell(value, o.new, DefaultValue)
       /\ react_fns' = NewCell([react_fns EXCEPT ![o.src] =
                                  Append(@, Reaction("promap_fwd", o.src, o.new, o.fn, 0))],
                               o.new,
                               <<Reaction("promap_back", o.src, o.new, o.gn, 0)>>)
       /\ successors' = NewCell([successors EXCEPT ![o.src] = Append(@, o.new)],
                                o.new, <<>>)
       /\ predecessors' = NewCell(predecessors, o.new, <<o.src>>)
       /\ Fresh(o.new)
    /\ Called

(***************************************************************************)
(* combine / extend / lift_from_array: values are taken out of the sources *)
(* (leaving an uninitialized temporary behind), moved into the new cell,   *)
(* and swapped back                                                        *)
(***************************************************************************)
\* Signal::take_value on cell c of value map m: the cell keeps the temporary u
take_value(m, c, u) == [val |-> m[c], map |-> [m EXCEPT ![c] = u]]

RECURSIVE TakeAll(_, _, _, _, _)
\* take_value on srcs[i..], in order; us[i] is the temporary of the i-th call
TakeAll(m, temps, srcs, us, i) ==
    IF i > Len(srcs) THEN [map |-> m, temps |-> temps]
    ELSE LET t == take_value(m, srcs[i], us[i])
         IN  TakeAll(t.map, Append(temps, t.val), srcs, us, i + 1)

RECURSIVE RestoreAll(_, _, _, _)
\* std::mem::swap(source.value, new.value[i]) for srcs[i..], in order
RestoreAll(m, newv, srcs, i) ==
    IF i > Len(srcs) THEN [map |-> m, newv |-> newv]
    ELSE RestoreAll([m EXCEPT ![srcs[i]] = newv[i]],
                    [newv EXCEPT ![i] = m[srcs[i]]], srcs, i + 1)

\* the value map after the take-and-restore construction of cell new from srcs
TakeAndRestore(m, new, srcs, us) ==
    LET taken    == TakeAll(m, <<>>, srcs, us, 1)
        restored == RestoreAll(taken.map, taken.temps, srcs, 1)
    IN  NewCell(restored.map, new, restored.newv)

RECURSIVE PushReactions(_, _, _, _, _)
\* react_fns.push of the slot-i closure on srcs[i], in order
PushReactions(f, kind, srcs, new, i) ==
    IF i > Len(srcs) THEN f
    ELSE PushReactions([f EXCEPT ![srcs[i]] =
                           Append(@, Reaction(kind, srcs[i], new, "", i))],
                       kind, srcs, new, i + 1)

RECURSIVE PushSuccessor(_, _, _, _)
\* successors.push(new) on srcs[i], in order
PushSuccessor(f, srcs, new, i) ==
    IF i > Len(srcs) THEN f
    ELSE PushSuccessor([f EXCEPT ![srcs[i]] = Append(@, new)], srcs, new, i + 1)

\* the source cells of a combine / extend / lift_from_array call, in slot order
Sources(o) == IF o.op = "lift" THEN o.others ELSE <<o.src>> \o o.others

\* the state change shared by combine_ref, extend_ref and lift_from_array
Derive(kind, srcs, new, us) ==
    /\ value' = TakeAndRestore(value, new, srcs, us)
    /\ react_fns' = NewCell(PushReactions(react_fns, kind, srcs, new, 1), new, <<>>)
    /\ successors' = NewCell(PushSuccessor(successors, srcs, new, 1), new, <<>>)
    /\ predecessors' = NewCell(predecessors, new, <<>>)
    /\ Fresh(new)

\* Signal::combine (combine_ref)
CombineOp ==
    /\ script # <<>> /\ NextOp.op = "combine"
    /\ \E us \in [1..2 -> UninitVals] :
          Derive("combine", Sources(NextOp), NextOp.new, us)
    /\ Called

\* Signal::extend (extend_ref)
ExtendOp ==
    /\ script # <<>> /\ NextOp.op = "extend"
    /\ \E us \in [1..Len(Sources(NextOp)) -> UninitVals] :
          Derive("extend", Sources(NextOp), NextOp.new, us)
    /\ Called

\* Signal::lift_from_array
LiftOp ==
    /\ script # <<>> /\ NextOp.op = "lift"
    /\ \E us \in [1..Len(Sources(NextOp)) -> UninitVals] :
          Derive("lift", Sources(NextOp), NextOp.new, us)
    /\ Called

\* Signal::depend: target.depend(dependency); the dependency's handle is moved
\* in and handed back
DependOp ==
    /\ script # <<>> /\ NextOp.op = "depend"
    /\ LET target == NextOp.new
           dependency == NextOp.src
       IN  /\ react_fns' = [react_fns EXCEPT ![dependency] =
                               Append(@, Reaction("depend", dependency, target, "", 0))]
           /\ successors' = [successors EXCEPT ![dependency] = Append(@, target)]
    /\ UNCHANGED <<value, predecessors, dirty, explicitly_modified, handles>>
    /\ Called

(***************************************************************************)
(* Direct writes, guard release, handle drop                               *)
(***************************************************************************)
Event(ev, cell, val) == [ev |-> ev, cell |-> cell, val |-> val]

IsWrite(e) == e.ev \in {"send", "send_with"}

NumWrites == Cardinality({i \in 1..Len(hist) : IsWrite(hist[i])})

\* a write may be issued: the program is built and the batch has room
CanWrite(c) ==
    /\ script = <<>>
    /\ \/ guards = <<>>
       \/ /\ NumWrites < MaxWrites + Program(scenario).extra
          /\ Program(scenario).once =>
                ~\E i \in 1..Len(hist) : IsWrite(hist[i]) /\ hist[i].cell = c

\* the tracked cells sent in the batch recorded in hist
TrackedSends ==
    {c \in Program(scenario).track :
        \E i \in 1..Len(hist) : hist[i].ev = "send" /\ hist[i].cell = c}

\* history: a write that finds no guard outstanding opens a new batch
Record(e) ==
    /\ hist' = IF guards = <<>> THEN <<e>> ELSE Append(hist, e)
    /\ log' = IF guards = <<>> THEN <<>> ELSE log
    /\ calls' = IF guards = <<>> THEN <<>> ELSE calls
    /\ prev' = IF guards = <<>> THEN TrackedSends ELSE prev

\* Signal::guard: walk (pruning the links that no longer resolve), mark dirty,
\* keep the tokens
guard(c) ==
    LET tokens == collect_guards(c)
    IN  /\ dirty' = mark_dirty(dirty, tokens, 1)
        /\ guards' = Append(guards, [root |-> c, tokens |-> tokens])
        /\ successors' = Pruned(successors, Cells(collect_guards_recursive(c)))
        /\ predecessors' = Pruned(predecessors, Cells(collect_predecessors_recursive(c)))

\* Signal::send
Send(c, v) ==
    /\ CanWrite(c) /\ c \in handles
    /\ value' = [value EXCEPT ![c] = v]
    /\ explicitly_modified' = [explicitly_modified EXCEPT ![c] = TRUE]
    /\ guard(c)
    /\ Record(Event("send", c, v))
    /\ UNCHANGED <<scenario, script, react_fns, handles, last_call, threads, sync, lib>>

\* Signal::send_with
SendWith(c) ==
    /\ CanWrite(c) /\ c \in handles
    /\ value[c] < MaxVal
    /\ value' = [value EXCEPT ![c] = Mutator(@)]
    /\ guard(c)
    /\ Record(Event("send_with", c, Mutator(value[c])))
    /\ UNCHANGED <<scenario, script, react_fns, handles, last_call, explicitly_modified,
                   threads, sync, lib>>

RemoveAt(seq, i) == SubSeq(seq, 1, i - 1) \o SubSeq(seq, i + 1, Len(seq))

\* the i-th outstanding guard goes out of scope
Release(i) ==
    LET held == handles \cup Pinned \cup Captured \cup TokenCells(RemoveAt(guards, i))
        st == DropGuard(DropState(held), guards[i].tokens)
    IN  /\ value' = st.value
        /\ dirty' = st.dirty
        /\ explicitly_modified' = st.em
        /\ log' = st.log
        /\ calls' = st.calls
        /\ guards' = RemoveAt(guards, i)
        /\ hist' = Append(hist, Event("drop", guards[i].root, i))
        /\ UNCHANGED <<scenario, script, graph, handles, last_call, prev, threads, sync, lib>>

\* the program drops its handle to c (the cell is freed once nothing else
\* holds a strong reference to it)
DropHandle(c) ==
    /\ script = <<>> /\ c \in handles
    /\ handles' = handles \ {c}
    /\ UNCHANGED <<scenario, script, value, graph, dirty, explicitly_modified,
                   guards, last_call, hist, log, calls, prev, threads, sync, lib>>

Next ==
    \/ NewOp
    \/ MapOp
    \/ WithOp
    \/ MapSendOp
    \/ ContramapOp
    \/ PromapOp
    \/ CombineOp
    \/ ExtendOp
    \/ LiftOp
    \/ DependOp
    \/ \E w \in Program(scenario).sends : Send(w[1], w[2])
    \/ \E c \in Program(scenario).mutable : SendWith(c)
    \/ \E i \in 1..Len(guards) : Release(i)
    \/ \E c \in Program(scenario).droppable : DropHandle(c)

Spec == Init /\ [][Next]_vars

(***************************************************************************)
(* The thread-safe twin (signal_sync.rs).  The program is built by the     *)
(* same derivation calls; then each thread issues one send and drops its   *)
(* guard.  A step is one atomic operation or one critical section: a       *)
(* store, a fetch_add, a fetch_sub, a load, or the statement that takes a  *)
(* value mutex and gives it back.  A thread record holds: cell, val (its   *)
(* write), pc, tokens (its guard), k (the token being dropped), f (the     *)
(* reaction function being run), tmp (the value f returned), holds (the    *)
(* locks it owns).                                                         *)
(***************************************************************************)
Threads == {1, 2}

SyncScenarioNames ==
    {"chain", "combine", "contramap", "lift", "extend", "depend", "mixed"}

\* the writes of the two threads
ThreadWrites(name) ==
    CASE name = "chain"     -> {<<<<"a", 1>>, <<"a", 2>>>>, <<<<"a", 1>>, <<"b", 3>>>>}
      [] name = "combine"   -> {<<<<"x", 3>>, <<"y", 5>>>>}
      [] name = "contramap" -> {<<<<"b", 1>>, <<"a", 5>>>>, <<<<"b", 1>>, <<"b", 100>>>>}
      [] name = "lift"      -> {<<<<"a", 10>>, <<"b", 20>>>>}
      [] name = "extend"    -> {<<<<"a", 10>>, <<"b", 20>>>>}
      [] name = "depend"    -> {<<<<"dep", 5>>, <<"a", 7>>>>}
      [] name = "mixed"     -> {<<<<"dep", 5>>, <<"y", 9>>>>}

SyncInit ==
    /\ scenario \in SyncScenarioNames
    /\ script = Program(scenario).script
    /\ value = <<>>
    /\ react_fns = <<>>
    /\ successors = <<>>
    /\ predecessors = <<>>
    /\ dirty = <<>>
    /\ explicitly_modified = <<>>
    /\ guards = <<>>
    /\ handles = {}
    /\ last_call = NoCall
    /\ hist = <<>>
    /\ log = <<>>
    /\ calls = <<>>
    /\ prev = {}
    /\ threads = <<>>
    /\ sync = <<>>
    /\ lib = <<>>

\* the program is built: the threads start, each with its write
Spawn ==
    /\ script = <<>> /\ threads = <<>>
    /\ \E ws \in ThreadWrites(scenario) :
          threads' = [t \in Threads |->
                         [cell |-> ws[t][1], val |-> ws[t][2], pc |-> "modify",
                          tokens |-> <<>>, k |-> 0, f |-> 0, tmp |-> 0, holds |-> {}]]
    /\ sync' = [start |-> value,
                zeros |-> [c \in DOMAIN value |-> 0],
                firings |-> [c \in DOMAIN value |-> 0]]
    /\ UNCHANGED <<scenario, script, value, graph, dirty, explicitly_modified,
                   guards, handles, last_call, hist, log, calls, prev, lib>>

\* the cell of the token thread record th is dropping
Cur(th) == th.tokens[th.k]

\* the reaction function th is running
Clo(th) == react_fns[Cur(th)][th.f]

\* the value mutexes a swapping closure locks, in the order of the arguments
\* of its std::mem::swap
LockOrder(r) ==
    CASE r.kind = "combine" -> <<r.src, r.new>>
      [] r.kind = "extend"  -> <<r.new, r.src>>
      [] r.kind = "lift"    -> <<r.new, r.src>>
      [] r.kind = "depend"  -> <<r.new, r.src>>

\* the value mutex the next step of th locks (<<>>: none)
Needs(th) ==
    CASE th.pc = "modify"  -> <<"value", th.cell>>
      [] th.pc = "compute" ->
            <<"value", IF Clo(th).kind = "contramap" THEN Clo(th).new ELSE Clo(th).src>>
      [] th.pc = "store"   ->
            <<"value", IF Clo(th).kind = "contramap" THEN Clo(th).src ELSE Clo(th).new>>
      [] th.pc = "first"   -> <<"value", LockOrder(Clo(th))[1]>>
      [] th.pc = "second"  -> <<"value", LockOrder(Clo(th))[2]>>
      [] OTHER             -> <<>>

\* Mutex::lock / RwLock::write returns: no thread owns the lock (std's locks
\* are not reentrant)
Free(l) == \A u \in Threads : l \notin threads[u].holds

\* the number of tokens of the root and its successor walk
ForwardTokens(c) == 1 + Len(SuccessorsFrom(Retain(successors[c]), 1))

\* the link lists collect_and_iterate write-locks in the step that visits
\* token k: the visited cell's successor list in the successor walk, its
\* predecessor list in the predecessor walk, and the root's predecessor list
\* once the successor walk has returned
WalkLocks(th) ==
    (IF th.k <= ForwardTokens(th.cell)
     THEN {<<"successors", Cur(th)>>} ELSE {<<"predecessors", Cur(th)>>})
    \cup (IF th.k = ForwardTokens(th.cell)
          THEN {<<"predecessors", th.cell>>} ELSE {})

\* thread t can take its next step
Ready(t) ==
    /\ threads[t].pc # "done"
    /\ Needs(threads[t]) # <<>> => Free(Needs(threads[t]))
    /\ threads[t].pc = "mark" => \A l \in WalkLocks(threads[t]) : Free(l)

\* mutant: the write guard of a link list outlives the collecting block
ListLocksReleased_Never(h) == h

\* collect_and_iterate: the block that holds refs.write() ends before the
\* callbacks run
ListLocksReleased(h) == {l \in h : l[1] \notin {"successors", "predecessors"}}

\* mutant: the MutexGuards of a swap outlive the statement
ValueLocksReleased_Never(h) == h

\* the MutexGuard temporaries of a statement are dropped at its end
ValueLocksReleased(h) == {l \in h : l[1] # "value"}

\* the thread-safe twin leaves the single-owner engine's bookkeeping alone
SyncFrame ==
    UNCHANGED <<scenario, script, graph, guards, handles, last_call, hist, log,
                calls, prev, lib>>

\* the guard's next token, or the end of the drop
NextToken(th) ==
    IF th.k < Len(th.tokens)
    THEN [th EXCEPT !.k = @ + 1, !.f = 0, !.pc = "dec"]
    ELSE [th EXCEPT !.k = 0, !.f = 0, !.tokens = <<>>, !.pc = "done"]

\* the for_each of react goes on, or ends and gives the read lock back
EndClosure(th) ==
    IF th.f < Len(react_fns[Cur(th)])
    THEN [th EXCEPT !.f = @ + 1, !.pc = "load"]
    ELSE [th EXCEPT !.f = 0, !.pc = "reset",
                    !.holds = @ \ {<<"react_fns", Cur(th)>>}]

\* SignalSync::send, first statement: modify (lock the value, write, unlock)
Modify(t) ==
    /\ threads # <<>> /\ threads[t].pc = "modify" /\ Ready(t)
    /\ value' = [value EXCEPT ![threads[t].cell] = threads[t].val]
    /\ threads' = [threads EXCEPT ![t].pc = "flag"]
    /\ UNCHANGED <<dirty, explicitly_modified, sync>>
    /\ SyncFrame

\* SignalSync::send, second statement: explicitly_modified.store(true)
StoreFlag(t) ==
    /\ threads # <<>> /\ threads[t].pc = "flag"
    /\ explicitly_modified' = [explicitly_modified EXCEPT ![threads[t].cell] = TRUE]
    /\ threads' = [threads EXCEPT ![t].pc = "mark", ![t].k = 1,
                                  ![t].tokens = collect_guards(threads[t].cell)]
    /\ UNCHANGED <<value, dirty, sync>>
    /\ SyncFrame

\* SignalSync::guard: the walk visits its next cell: mark_dirty (fetch_add),
\* the token pushed, then collect_and_iterate's block on the cell's link list
\* (write lock, retain, collect the live links, unlock)
MarkDirty(t) ==
    /\ threads # <<>> /\ threads[t].pc = "mark" /\ Ready(t)
    /\ LET th == threads[t]
           h  == ListLocksReleased(th.holds \cup WalkLocks(th))
       IN
       /\ dirty' = [dirty EXCEPT ![Cur(th)] = @ + 1]
       /\ threads' = [threads EXCEPT ![t] =
                         IF th.k < Len(th.tokens)
                         THEN [th EXCEPT !.k = @ + 1, !.holds = h]
                         ELSE [th EXCEPT !.k = 1, !.pc = "dec", !.holds = h]]
    /\ UNCHANGED <<value, explicitly_modified, sync>>
    /\ SyncFrame

\* Drop for SignalGuardInnerSync, first statement: decrease_dirty (fetch_sub)
DecreaseDirty(t) ==
    /\ threads # <<>> /\ threads[t].pc = "dec"
    /\ LET c == Cur(threads[t]) IN
       /\ dirty' = [dirty EXCEPT ![c] = @ - 1]
       /\ sync' = IF dirty[c] = 1 THEN [sync EXCEPT !.zeros[c] = @ + 1] ELSE sync
    /\ threads' = [threads EXCEPT ![t].pc = "get"]
    /\ UNCHANGED <<value, explicitly_modified>>
    /\ SyncFrame

\* Drop for SignalGuardInnerSync, the test: get_dirty (load) == 0
GetDirty(t) ==
    /\ threads # <<>> /\ threads[t].pc = "get"
    /\ LET th == threads[t] IN
       threads' = [threads EXCEPT ![t] =
                      IF dirty[Cur(th)] = 0 THEN [th EXCEPT !.pc = "react"]
                      ELSE NextToken(th)]
    /\ UNCHANGED <<value, dirty, explicitly_modified, sync>>
    /\ SyncFrame

\* SignalExtSync::react: react_fns.read() taken, the iteration begins
\* (no thread writes react_fns once the program is built, so read() returns)
ReactBegin(t) ==
    /\ threads # <<>> /\ threads[t].pc = "react"
    /\ LET th == threads[t]
           c  == Cur(th)
       IN  /\ sync' = [sync EXCEPT !.firings[c] = @ + 1]
           /\ threads' = [threads EXCEPT ![t] =
                             IF react_fns[c] = <<>> THEN [th EXCEPT !.pc = "reset"]
                             ELSE [th EXCEPT !.pc = "load", !.f = 1,
                                             !.holds = @ \cup {<<"react_fns", c>>}]]
    /\ UNCHANGED <<value, dirty, explicitly_modified>>
    /\ SyncFrame

\* a reaction function begins: both ends upgraded, the derived cell's
\* explicitly_modified loaded
LoadFlag(t) ==
    /\ threads # <<>> /\ threads[t].pc = "load"
    /\ LET th == threads[t]
           r  == Clo(th)
           go == /\ r.src \in Alive /\ r.new \in Alive
                 /\ IF r.kind = "contramap" THEN explicitly_modified[r.new]
                    ELSE ~explicitly_modified[r.new]
       IN  threads' = [threads EXCEPT ![t] =
                          IF ~go THEN EndClosure(th)
                          ELSE IF r.kind \in {"map", "with", "contramap"}
                               THEN [th EXCEPT !.pc = "compute"]
                               ELSE [th EXCEPT !.pc = "first"]]
    /\ UNCHANGED <<value, dirty, explicitly_modified, sync>>
    /\ SyncFrame

\* map_ref: let new_value = f(&src.value.lock().unwrap());
\* contramap: t_value = f(&u_value_ref); drop(u_value_ref)
Compute(t) ==
    /\ threads # <<>> /\ threads[t].pc = "compute" /\ Ready(t)
    /\ LET r == Clo(threads[t]) IN
       threads' = [threads EXCEPT ![t].pc = "store",
                                  ![t].tmp = Apply(r.fn, value[Needs(threads[t])[2]])]
    /\ UNCHANGED <<value, dirty, explicitly_modified, sync>>
    /\ SyncFrame

\* map_ref: *new_sig.value.lock().unwrap() = new_value;
\* contramap: *source.value.lock().unwrap() = t_value
Store(t) ==
    /\ threads # <<>> /\ threads[t].pc = "store" /\ Ready(t)
    /\ LET th == threads[t]
           r  == Clo(th)
       IN  /\ value' = [value EXCEPT ![Needs(th)[2]] = th.tmp]
           /\ threads' = [threads EXCEPT ![t] =
                             IF r.kind = "contramap"
                             THEN [th EXCEPT !.pc = "setflag", !.tmp = 0]
                             ELSE EndClosure([th EXCEPT !.tmp = 0])]
    /\ UNCHANGED <<dirty, explicitly_modified, sync>>
    /\ SyncFrame

\* contramap: source.explicitly_modified.store(true)
SetFlag(t) ==
    /\ threads # <<>> /\ threads[t].pc = "setflag"
    /\ explicitly_modified' =
          [explicitly_modified EXCEPT ![Clo(threads[t]).src] = TRUE]
    /\ threads' = [threads EXCEPT ![t] = EndClosure(threads[t])]
    /\ UNCHANGED <<value, dirty, sync>>
    /\ SyncFrame

\* combine / extend / lift_from_array / depend: the first argument of
\* std::mem::swap is evaluated, its mutex locked
LockFirst(t) ==
    /\ threads # <<>> /\ threads[t].pc = "first" /\ Ready(t)
    /\ threads' = [threads EXCEPT ![t].pc = "second",
                                  ![t].holds = @ \cup {Needs(threads[t])}]
    /\ UNCHANGED <<value, dirty, explicitly_modified, sync>>
    /\ SyncFrame

\* the second mutex locked, the values swapped, both guards dropped
LockSecond(t) ==
    /\ threads # <<>> /\ threads[t].pc = "second" /\ Ready(t)
    /\ LET th == threads[t]
           r  == Clo(th)
       IN  /\ value' = IF r.kind = "depend"
                       THEN [value EXCEPT ![r.new] = value[r.src],
                                          ![r.src] = value[r.new]]
                       ELSE SwapSlot([value |-> value], r.src, r.new, r.idx).value
           /\ threads' = [threads EXCEPT ![t] =
                             EndClosure([th EXCEPT !.holds = ValueLocksReleased(@)])]
    /\ UNCHANGED <<dirty, explicitly_modified, sync>>
    /\ SyncFrame

\* Drop for SignalGuardInnerSync, last statement: reset_explicitly_modified
ResetFlag(t) ==
    /\ threads # <<>> /\ threads[t].pc = "reset"
    /\ explicitly_modified' =
          [explicitly_modified EXCEPT ![Cur(threads[t])] = FALSE]
    /\ threads' = [threads EXCEPT ![t] = NextToken(threads[t])]
    /\ UNCHANGED <<value, dirty, sync>>
    /\ SyncFrame

SyncNext ==
    \/ NewOp
    \/ MapOp
    \/ ContramapOp
    \/ CombineOp
    \/ ExtendOp
    \/ LiftOp
    \/ DependOp
    \/ Spawn
    \/ \E t \in Threads : Modify(t)
    \/ \E t \in Threads : StoreFlag(t)
    \/ \E t \in Threads : MarkDirty(t)
    \/ \E t \in Threads : DecreaseDirty(t)
    \/ \E t \in Threads : GetDirty(t)
    \/ \E t \in Threads : ReactBegin(t)
    \/ \E t \in Threads : LoadFlag(t)
    \/ \E t \in Threads : Compute(t)
    \/ \E t \in Threads : Store(t)
    \/ \E t \in Threads : SetFlag(t)
    \/ \E t \in Threads : LockFirst(t)
    \/ \E t \in Threads : LockSecond(t)
    \/ \E t \in Threads : ResetFlag(t)

SyncSpec == SyncInit /\ [][SyncNext]_vars

\* every thread has dropped its guard
SyncDone == threads # <<>> /\ \A t \in Threads : threads[t].pc = "done"

\* the single-owner engine on the program as built, before any write
Start ==
    [value |-> sync.start, dirty |-> [c \in DOMAIN value |-> 0],
     em |-> [c \in DOMAIN value |-> FALSE], log |-> <<>>, calls |-> <<>>,
     held |-> handles, alive |-> handles, depth |-> 0]

\* Signal::send of write w = <<cell, value>> in the single-owner engine
SendSt(st, w) ==
    [st EXCEPT !.value[w[1]] = w[2], !.em[w[1]] = TRUE,
               !.dirty = mark_dirty(st.dirty, collect_guards(w[1]), 1)]

\* w1 issued and released, then w2 issued and released
OneAfterOther(w1, w2) ==
    DropGuard(SendSt(DropGuard(SendSt(Start, w1), collect_guards(w1[1])), w2),
              collect_guards(w2[1])).value

\* w1 issued, then w2, then the guard of wa released, then that of wb
Batched(w1, w2, wa, wb) ==
    DropGuard(DropGuard(SendSt(SendSt(Start, w1), w2), collect_guards(wa[1])),
              collect_guards(wb[1])).value

\* the final values of the single-owner engine over every order of the two
\* threads' writes, released one by one or as a batch in either order
SequentialOutcomes ==
    LET w == [t \in Threads |-> <<threads[t].cell, threads[t].val>>] IN
    {OneAfterOther(w[1], w[2]), OneAfterOther(w[2], w[1]),
     Batched(w[1], w[2], w[1], w[2]), Batched(w[1], w[2], w[2], w[1]),
     Batched(w[2], w[1], w[1], w[2]), Batched(w[2], w[1], w[2], w[1])}

(***************************************************************************)
(* Batches with combined guards: g1.and(g2), and guards that are released  *)
(* when they go out of scope                                               *)
(***************************************************************************)
BatchScenarioNames == {"chain", "promap", "back_fwd"}

BatchInit ==
    /\ scenario \in BatchScenarioNames
    /\ script = Program(scenario).script
    /\ value = <<>>
    /\ react_fns = <<>>
    /\ successors = <<>>
    /\ predecessors = <<>>
    /\ dirty = <<>>
    /\ explicitly_modified = <<>>
    /\ guards = <<>>
    /\ handles = {}
    /\ last_call = NoCall
    /\ hist = <<>>
    /\ log = <<>>
    /\ calls = <<>>
    /\ prev = {}
    /\ threads = <<>>
    /\ sync = <<>>
    /\ lib = <<>>

\* mutant: the tokens of the other guard are lost
AndTokens_OtherLost(t1, t2) == t1

\* self.0.append(&mut other.0)
AndTokens(t1, t2) == t1 \o t2

\* the guards without the i-th and the j-th
RemoveBoth(seq, i, j) ==
    IF i < j THEN RemoveAt(RemoveAt(seq, j), i) ELSE RemoveAt(RemoveAt(seq, i), j)

\* SignalGuard::and: guards[i].and(guards[j]); the other guard, emptied, is
\* dropped at the end of the call and releases nothing
And(i, j) ==
    /\ i # j
    /\ guards' = Append(RemoveBoth(guards, i, j),
                        [root |-> guards[i].root,
                         tokens |-> AndTokens(guards[i].tokens, guards[j].tokens)])
    /\ hist' = Append(hist, Event("and", guards[i].root, <<i, j>>))
    /\ UNCHANGED <<scenario, script, value, graph, dirty, explicitly_modified,
                   handles, last_call, log, calls, prev, threads, sync, lib>>

\* a guard goes out of scope
ReleaseSome == \E i \in 1..Len(guards) : Release(i)

BatchNext ==
    \/ NewOp
    \/ MapOp
    \/ ContramapOp
    \/ PromapOp
    \/ \E w \in Program(scenario).sends : Send(w[1], w[2])
    \/ \E c \in Program(scenario).mutable : SendWith(c)
    \/ ReleaseSome
    \/ \E i, j \in 1..Len(guards) : And(i, j)

BatchSpec == BatchInit /\ [][BatchNext]_vars

(***************************************************************************)
(* The global-batch variant (lib.rs): a thread-local batch depth, and       *)
(* BatchGuards that notify when the depth returns to 0                      *)
(***************************************************************************)
LibScenarioNames == {"test_batch", "test_batch_combine"}

\* the signals the tests build: values and subscriptions after construction
LibProgram(name) ==
    CASE name = "test_batch" ->
           [value |-> [signal |-> 0, mapped |-> 0],
            subscribers |->
                [signal |-> <<[kind |-> "map", src |-> "signal", new |-> "mapped",
                               fn |-> "id"]>>,
                 mapped |-> <<>>],
            sends |-> {<<"signal", 1>>, <<"signal", 2>>}]
      [] name = "test_batch_combine" ->
           [value |-> [x |-> 1, y |-> 2, combined |-> <<1, 2>>, printed |-> <<>>],
            subscribers |->
                [x |-> <<[kind |-> "combine", src |-> "x", right |-> "y",
                          new |-> "combined"]>>,
                 y |-> <<[kind |-> "combine", src |-> "x", right |-> "y",
                          new |-> "combined"]>>,
                 combined |-> <<[kind |-> "map", src |-> "combined",
                                 new |-> "printed", fn |-> "unit"]>>,
                 printed |-> <<>>],
            sends |-> {<<"x", 1>>, <<"x", 3>>, <<"y", 4>>}]

LibSignals == DOMAIN lib.value

\* Signal::new for the signals of the program; GLOBAL_BATCH_STATE = BatchState::new()
\* (notified_signals is cleared by exit and never pushed to: it stays empty)
LibInit ==
    /\ scenario \in LibScenarioNames
    /\ lib = [value |-> LibProgram(scenario).value,
              subscribers |-> LibProgram(scenario).subscribers,
              needs_notification |-> [s \in DOMAIN LibProgram(scenario).value |-> FALSE],
              depth |-> 0,
              guards |-> <<>>,
              notes |-> <<>>,
              events |-> <<>>]
    /\ script = <<>>
    /\ value = <<>>
    /\ react_fns = <<>>
    /\ successors = <<>>
    /\ predecessors = <<>>
    /\ dirty = <<>>
    /\ explicitly_modified = <<>>
    /\ guards = <<>>
    /\ handles = {}
    /\ last_call = NoCall
    /\ hist = <<>>
    /\ log = <<>>
    /\ calls = <<>>
    /\ prev = {}
    /\ threads = <<>>
    /\ sync = <<>>

\* the engine of signal.rs is not part of this variant
LibFrame ==
    UNCHANGED <<scenario, script, value, graph, dirty, explicitly_modified, guards,
                handles, last_call, hist, log, calls, prev, threads, sync>>

\* lib.rs, on st = [value, notes]: notify_subscribers runs the subscriptions
\* in order; each recomputes its target and send_now's it (the subscriptions of
\* map and combine return true and are retained)
RECURSIVE notify_subscribers(_, _)
RECURSIVE RunSubscribers(_, _, _)

\* Signal::send_now
send_now(st, s, v) == notify_subscribers([st EXCEPT !.value[s] = v], s)

\* the subscription closures of map and combine_impl
Subscription(st, r) ==
    IF r.kind = "map"
    THEN send_now(st, r.new, Apply(r.fn, st.value[r.src]))
    ELSE send_now(st, r.new, <<st.value[r.src], st.value[r.right]>>)

RunSubscribers(st, s, i) ==
    IF i > Len(lib.subscribers[s]) THEN st
    ELSE RunSubscribers(Subscription(st, lib.subscribers[s][i]), s, i + 1)

notify_subscribers(st, s) ==
    RunSubscribers([st EXCEPT !.notes = Append(@, [signal |-> s, value |-> st.value[s]])],
                   s, 1)

\* mutant: send does not enter the batch
enter_Nothing(depth) == depth

\* BatchState::enter
enter(depth) == depth + 1

\* mutant: every guard release notifies its signal
exit_AtAnyDepth(l, s) ==
    LET d == IF l.depth > 0 THEN l.depth - 1 ELSE 0 IN
    IF l.needs_notification[s]
    THEN LET st == notify_subscribers([value |-> l.value, notes |-> l.notes], s) IN
         [l EXCEPT !.depth = d, !.needs_notification[s] = FALSE,
                   !.value = st.value, !.notes = st.notes]
    ELSE [l EXCEPT !.depth = d]

\* BatchState::exit(signal): depth.saturating_sub(1); at depth 0 the signal of
\* the guard being dropped, if it needs notification, is notified
exit(l, s) ==
    LET d == IF l.depth > 0 THEN l.depth - 1 ELSE 0 IN
    IF d = 0 /\ l.needs_notification[s]
    THEN LET st == notify_subscribers([value |-> l.value, notes |-> l.notes], s) IN
         [l EXCEPT !.depth = d, !.needs_notification[s] = FALSE,
                   !.value = st.value, !.notes = st.notes]
    ELSE [l EXCEPT !.depth = d]

\* history: what the program did, and the depth and the number of
\* notifications it left
LibEvent(l, ev, s) ==
    [l EXCEPT !.events = Append(@, [ev |-> ev, signal |-> s, val |-> l.value[s],
                                    depth |-> l.depth, notes |-> Len(l.notes)])]

LibCanSend ==
    Cardinality({i \in 1..Len(lib.events) : lib.events[i].ev # "drop"}) < MaxSends

\* Signal::send
LibSend(s, v) ==
    /\ LibCanSend
    /\ lib' = LibEvent([lib EXCEPT !.depth = enter(@), !.value[s] = v,
                                   !.needs_notification[s] = TRUE,
                                   !.guards = Append(@, s)], "send", s)
    /\ LibFrame

\* Signal::send_with
LibSendWith(s) ==
    /\ LibCanSend
    /\ lib' = LibEvent([lib EXCEPT !.depth = enter(@), !.value[s] = Mutator(@),
                                   !.needs_notification[s] = TRUE,
                                   !.guards = Append(@, s)], "send_with", s)
    /\ LibFrame

\* Signal::send_now called by the program
LibSendNow(s, v) ==
    /\ LibCanSend
    /\ LET st == send_now([value |-> lib.value, notes |-> lib.notes], s, v) IN
       lib' = LibEvent([lib EXCEPT !.value = st.value, !.notes = st.notes],
                       "send_now", s)
    /\ LibFrame

\* Drop for BatchGuard: the i-th outstanding guard goes out of scope
LibDrop(i) ==
    /\ lib' = LibEvent([exit(lib, lib.guards[i]) EXCEPT !.guards = RemoveAt(@, i)],
                       "drop", lib.guards[i])
    /\ LibFrame

LibNext ==
    \/ \E w \in LibProgram(scenario).sends : LibSend(w[1], w[2])
    \/ \E w \in LibProgram(scenario).sends : LibSendWith(w[1])
    \/ \E w \in LibProgram(scenario).sends : LibSendNow(w[1], w[2])
    \/ \E i \in 1..Len(lib.guards) : LibDrop(i)

LibSpec == LibInit /\ [][LibNext]_vars

(***************************************************************************)
(* Vocabulary of the properties                                            *)
(***************************************************************************)
\* every guard of the current batch has been released
BatchDone == script = <<>> /\ guards = <<>> /\ hist # <<>>

Writes == SelectSeq(hist, IsWrite)

\* every write of the batch was issued before any guard was released
WritesFirst ==
    \A i, j \in 1..Len(hist) : (i < j /\ hist[i].ev = "drop") => hist[j].ev = "drop"

\* the batch consists of sends only, and only to the cells given
OnlySends(cells) ==
    \A i \in 1..Len(hist) :
        IsWrite(hist[i]) => (hist[i].ev = "send" /\ hist[i].cell \in cells)

Wrote(c) == \E i \in 1..Len(hist) : IsWrite(hist[i]) /\ hist[i].cell = c

\* the batch is exactly one send, to cell c
OneSend(c) == Len(Writes) = 1 /\ Writes[1].ev = "send" /\ Writes[1].cell = c

\* the value of the last send to c in the batch
LastSent(c) ==
    LET idx == {i \in 1..Len(hist) : hist[i].ev = "send" /\ hist[i].cell = c}
        last == CHOOSE i \in idx : \A j \in idx : j <= i
    IN  hist[last].val

\* the firings of c in the batch, in order
Firings(c) == SelectSeq(log, LAMBDA e : e.cell = c)

\* the closures attached by map / with, over all cells
MapClosures ==
    {r \in UNION {{react_fns[c][i] : i \in 1..Len(react_fns[c])} : c \in DOMAIN react_fns} :
        r.kind \in {"map", "with"}}

\* the step is the release of a guard
IsRelease == Len(guards') < Len(guards)

\* the calls of map / with closures' f that produced a value for c, in the batch
CallsInto(c) == SelectSeq(calls, LAMBDA e : e.new = c)

\* the same, in the step
NewCallsInto(c) ==
    SelectSeq(SubSeq(calls', Len(calls) + 1, Len(calls')), LAMBDA e : e.new = c)

\* the firings of c in the step
NewFirings(c) == SelectSeq(SubSeq(log', Len(log) + 1, Len(log')), LAMBDA e : e.cell = c)

(***************************************************************************)
(* Properties                                                              *)
(***************************************************************************)

\* C1 -- glitch freedom on the diamond a -> b (dbl), a -> c (inc),
\* d = b.combine(c): a batch that is one a.send(v), once released, has fired d
\* exactly once, and d's reactions ran against <<dbl(v), inc(v)>> (so the
\* observer od = d.map(sum) holds dbl(v) + inc(v)).
C1_GlitchFreeDiamond ==
    (scenario = "diamond" /\ BatchDone /\ OneSend("a")) =>
        LET v == LastSent("a") IN
        /\ Len(Firings("d")) = 1
        /\ Firings("d")[1].val = <<Apply("dbl", v), Apply("inc", v)>>
        /\ value["od"] = Apply("dbl", v) + Apply("inc", v)

\* the diamond after a.send(2) was released: d fired with <<4, 3>>
C1_Witness ==
    /\ scenario = "diamond" /\ BatchDone /\ OneSend("a") /\ LastSent("a") = 2
    /\ Len(Firings("d")) = 1
    /\ Firings("d")[1].val = <<4, 3>>

\* C2 -- direct-write precedence on b = a.map(dbl): when a batch is sends to a
\* and to b (both written, in either order), all issued before any guard is
\* released, then after all guards are released b holds the value last sent to b
\* (and so not dbl of the value sent to a, when the two differ).
C2_DirectWriteWins ==
    (scenario = "chain" /\ BatchDone /\ WritesFirst /\ OnlySends({"a", "b"})
        /\ Wrote("a") /\ Wrote("b")) =>
        value["b"] = LastSent("b")

\* b.send(3) then a.send(1), released: b holds 3, not dbl(1) = 2
C2_Witness ==
    /\ scenario = "chain" /\ BatchDone /\ WritesFirst
    /\ Len(Writes) = 2
    /\ Writes[1] = Event("send", "b", 3) /\ Writes[2] = Event("send", "a", 1)
    /\ value["b"] = 3

\* C3 -- at most once per batch on c = x.combine(y): when a batch is sends to x
\* and to y (both written), all issued before any guard is released, c does not
\* fire while a guard of the batch is outstanding, and once all are released c
\* has fired exactly once, against <<last x, last y>>.
C3_OncePerBatch ==
    (scenario = "combine" /\ script = <<>> /\ hist # <<>> /\ WritesFirst
        /\ OnlySends({"x", "y"}) /\ Wrote("x") /\ Wrote("y")) =>
        IF guards # <<>>
        THEN Len(Firings("c")) = 0
        ELSE /\ Len(Firings("c")) = 1
             /\ Firings("c")[1].val = <<LastSent("x"), LastSent("y")>>
             /\ value["oc"] = LastSent("x") + LastSent("y")

\* x.send(4) and y.send(5) released together: c fired once with <<4, 5>>
C3_Witness ==
    /\ scenario = "combine" /\ BatchDone /\ WritesFirst /\ Len(Writes) = 2
    /\ Wrote("x") /\ Wrote("y") /\ LastSent("x") = 4 /\ LastSent("y") = 5
    /\ Len(Firings("c")) = 1
    /\ Firings("c")[1].val = <<4, 5>>

\* C4 -- map contract in every forward graph: for every closure attached by
\* b = a.map(f) / a.with(f), after a released batch of sends that wrote a and
\* did not write b, b holds f(last value sent to a) -- whatever else is attached
\* to a or b, before or after the map.
C4_MapContract ==
    (scenario \in {"chain", "diamond", "map_then_combine", "combine_then_map"}
        /\ BatchDone) =>
        \A r \in MapClosures :
            (Wrote(r.src) /\ OnlySends(DOMAIN value \ {r.new})) =>
                value[r.new] = Apply(r.fn, LastSent(r.src))

\* C5 -- promap applies one direction per batch, on b = a.promap(dbl, half):
\* after a batch that is one b.send(v), a holds half(v) and b still holds v;
\* after a batch that is one a.send(w), b holds dbl(w) and a holds w.
C5_PromapOneDirection ==
    (scenario = "promap" /\ BatchDone) =>
        /\ OneSend("b") =>
              (value["a"] = Apply("half", LastSent("b")) /\ value["b"] = LastSent("b"))
        /\ OneSend("a") =>
              (value["b"] = Apply("dbl", LastSent("a")) /\ value["a"] = LastSent("a"))

\* C6 -- backward round trip as documented, on b = a.contramap(|u| u * 2):
\* after a batch that is one b.send(100), a holds 50.
C6_BackwardRoundTrip ==
    (scenario = "contramap" /\ BatchDone /\ OneSend("b") /\ LastSent("b") = 100) =>
        value["a"] = 50

\* C7 -- backward derivation value, on b = a.contramap(g) (g = dbl in
\* "contramap", g = inc in "contra_chain"): the release that completes a batch
\* that is one b.send(v) leaves a holding g(v); and a release in which b fires
\* only while not flagged explicitly modified leaves a unchanged.
C7_Step ==
    (scenario \in {"contramap", "contra_chain"} /\ IsRelease) =>
        /\ (guards' = <<>> /\ OneSend("b")) =>
              value'["a"] = Apply(react_fns["b"][1].fn, LastSent("b"))
        /\ (NewFirings("b") # <<>>
              /\ \A i \in 1..Len(NewFirings("b")) : ~NewFirings("b")[i].em) =>
              value'["a"] = value["a"]

C8_ForwardAfterBackward ==
    (scenario \in {"back_fwd", "back_fwd_pro"} /\ BatchDone /\ OneSend("b")) =>
        LET gv == Apply(react_fns["b"][1].fn, LastSent("b")) IN
        /\ value["c"] = Apply("inc", gv)
        /\ value["d"] = Apply("dbl", Apply("inc", gv))

\* C9 -- per-slot update of every combined cell, on ab = a.combine(b),
\* ac = a.combine(c): the release that completes a batch that is one a.send(v)
\* leaves slot 1 of ab and of ac equal to v and their slots 2 as they were; and
\* a batch of sends, all issued before any release, that sent ab leaves ab
\* holding the value last sent to it.
C9_Step ==
    (scenario = "multi" /\ IsRelease /\ guards' = <<>>) =>
        /\ OneSend("a") =>
              /\ value'["ab"][1] = LastSent("a")
              /\ value'["ac"][1] = LastSent("a")
              /\ value'["ab"][2] = value["ab"][2]
              /\ value'["ac"][2] = value["ac"][2]
        /\ (WritesFirst /\ OnlySends({"a", "ab"}) /\ Wrote("ab")) =>
              value'["ab"] = LastSent("ab")

C9_PerSlotUpdate == [][C9_Step]_vars

\* C10 -- eager initial value: right after combine, extend or lift_from_array,
\* before any write, the new cell holds the values the sources had before the
\* call, in source order, and every source still holds that value.
C10_EagerInitialValue ==
    (last_call.op.op \in {"combine", "extend", "lift"} /\ hist = <<>>) =>
        LET srcs == Sources(last_call.op) IN
        /\ value[last_call.op.new] =
              [i \in 1..Len(srcs) |-> last_call.before[srcs[i]]]
        /\ \A i \in 1..Len(srcs) : value[srcs[i]] = last_call.before[srcs[i]]

\* C11 -- extend keeps unwritten slots at their sources' values, on
\* d = a.extend([b, c]) with a = 1, b = 2, c = 3: after a released batch of
\* sends to the sources, all issued before any release, d has fired once, each
\* written source's slot holds the value last sent to it and each unwritten
\* source's slot holds that source's value (so [10, 2, 3] after a.send(10)).
C11_ExtendSlots ==
    (scenario = "extend" /\ BatchDone /\ WritesFirst /\ OnlySends({"a", "b", "c"})) =>
        LET srcs == <<"a", "b", "c">> IN
        /\ Len(Firings("d")) = 1
        /\ \A i \in 1..3 :
              value["d"][i] = IF Wrote(srcs[i]) THEN LastSent(srcs[i])
                              ELSE value[srcs[i]]

\* C16 -- dirty counters return to zero: whenever every guard created so far
\* has been released, every cell's dirty counter is 0.
C16_DirtyBackToZero ==
    (script = <<>> /\ guards = <<>>) => \A c \in DOMAIN dirty : dirty[c] = 0

\* the diamond after two writes, both released: d was visited twice per a.send
C16_Witness ==
    /\ scenario = "diamond" /\ BatchDone /\ Len(Writes) = 2 /\ Wrote("a")
    /\ \A c \in DOMAIN dirty : dirty[c] = 0

\* C17 -- explicitly_modified is transient: whenever no guard is outstanding,
\* every cell's explicitly_modified flag is false.
C17_FlagTransient ==
    (script = <<>> /\ guards = <<>>) =>
        \A c \in DOMAIN explicitly_modified : ~explicitly_modified[c]

\* C18 -- every direct write marks the cell: right after a send or a send_with
\* the written cell is flagged; and on b = a.map(dbl) a batch of a.send(y) and
\* b.send_with(m), both issued before any release, ends with b holding the
\* value the mutator produced.
C18_EveryWriteMarks ==
    /\ (hist # <<>> /\ IsWrite(hist[Len(hist)])) =>
          explicitly_modified[hist[Len(hist)].cell]
    /\ (scenario = "chain" /\ BatchDone /\ WritesFirst /\ Len(Writes) = 2
          /\ (\E i \in 1..2 : Writes[i].ev = "send" /\ Writes[i].cell = "a")
          /\ (\E j \in 1..2 : Writes[j].ev = "send_with" /\ Writes[j].cell = "b")) =>
          \E k \in 1..2 : Writes[k].ev = "send_with" /\ value["b"] = Writes[k].val

\* C20 -- several sends to one cell batch into one firing: when a batch is
\* two or more sends to one cell c, all issued before any release, c does not
\* fire while a guard of the batch is outstanding, and once all are released c
\* has fired exactly once, against the value of the last send.
C20_SendsBatch ==
    \A c \in DOMAIN value :
        (script = <<>> /\ WritesFirst /\ OnlySends({c}) /\ Len(Writes) >= 2) =>
            IF guards # <<>>
            THEN Len(Firings(c)) = 0
            ELSE Len(Firings(c)) = 1 /\ Firings(c)[1].val = LastSent(c)

\* a.send(2) then a.send(1) on the chain, both released: a fired once, with 1
C20_Witness ==
    /\ scenario = "chain" /\ BatchDone /\ WritesFirst /\ Len(Writes) = 2
    /\ Writes[1] = Event("send", "a", 2) /\ Writes[2] = Event("send", "a", 1)
    /\ Len(Firings("a")) = 1 /\ Firings("a")[1].val = 1
    /\ value["b"] = 2


\* C12 -- array-lift ordering on abc = lift_from_array([a, b, c]): a batch of
\* a.send(10), b.send(20), c.send(30), all issued (in any order) before any
\* guard is released, leaves abc = [10, 20, 30] once all are released, and abc
\* has fired exactly once, against that value.
C12_LiftOrdering ==
    (scenario = "lift" /\ BatchDone /\ WritesFirst /\ OnlySends({"a", "b", "c"})
        /\ Wrote("a") /\ Wrote("b") /\ Wrote("c")) =>
        /\ value["abc"] = <<LastSent("a"), LastSent("b"), LastSent("c")>>
        /\ Len(Firings("abc")) = 1
        /\ Firings("abc")[1].val = value["abc"]

\* a.send(10), b.send(20), c.send(30) in that order, then released
C12_Witness ==
    /\ scenario = "lift" /\ BatchDone /\ WritesFirst /\ Len(Writes) = 3
    /\ Writes[1] = Event("send", "a", 10) /\ Writes[2] = Event("send", "b", 20)
    /\ Writes[3] = Event("send", "c", 30)
    /\ value["abc"] = <<10, 20, 30>>
    /\ Len(Firings("abc")) = 1

\* C13 -- depend transfers the dependency's value, on a.depend(dep) with the
\* observer oa = a.map(inc): after a released batch of sends to dep only, a
\* holds the value last sent and a fired once, against it; after a released
\* batch that sent both a and dep (all before any release), a holds the value
\* last sent to a.
C13_DependTransfers ==
    /\ (scenario = "depend" /\ BatchDone /\ WritesFirst /\ OnlySends({"dep"})) =>
          /\ value["a"] = LastSent("dep")
          /\ Len(Firings("a")) = 1
          /\ Firings("a")[1].val = LastSent("dep")
    /\ (scenario = "depend" /\ BatchDone /\ WritesFirst /\ OnlySends({"a", "dep"})
          /\ Wrote("a") /\ Wrote("dep")) =>
          value["a"] = LastSent("a")

\* dep.send(5), released: a took 5 and its observer saw it
C13_Witness ==
    /\ scenario = "depend" /\ BatchDone /\ OneSend("dep") /\ LastSent("dep") = 5
    /\ value["a"] = 5 /\ value["oa"] = 6
    /\ Len(Firings("a")) = 1

\* C14 -- weak reclamation on b = a.map(dbl), ob = b.map(inc): once b is freed
\* (its handle dropped, no token left for it) no step writes the value of b or
\* of ob, creates a token for b, calls a closure on b's behalf, or fires b or ob.
C14_Step ==
    (scenario = "weak_drop" /\ script = <<>> /\ "b" \notin Alive) =>
        /\ value'["b"] = value["b"] /\ value'["ob"] = value["ob"]
        /\ "b" \notin TokenCells(guards')
        /\ NewCallsInto("b") = <<>> /\ NewCallsInto("ob") = <<>>
        /\ NewFirings("b") = <<>> /\ NewFirings("ob") = <<>>

C14_WeakReclaimed == [][C14_Step]_vars

\* b was freed, then a.send(3) was issued and released: a fired, b was not
\* recomputed and the observer did not fire
C14_Witness ==
    /\ scenario = "weak_drop" /\ BatchDone /\ "b" \notin handles
    /\ OneSend("a") /\ LastSent("a") = 3
    /\ Len(Firings("a")) = 1 /\ calls = <<>>
    /\ value["b"] # 6 /\ Firings("ob") = <<>>

\* C15 -- strong retention on b = a.with(dbl), ob = b.map(inc): with the
\* caller's handle to b dropped, every guard of a write to a holds a token for
\* b, and a released batch of sends to a called dbl exactly once, fired b once
\* against dbl of the value last sent, and brought the observer up to date.
C15_StrongRetention ==
    (scenario = "strong_keep" /\ script = <<>> /\ "b" \notin handles) =>
        /\ \A i \in 1..Len(guards) :
              guards[i].root = "a" => "b" \in Cells(guards[i].tokens)
        /\ (BatchDone /\ OnlySends({"a"})) =>
              /\ Len(CallsInto("b")) = 1
              /\ Len(Firings("b")) = 1
              /\ Firings("b")[1].val = Apply("dbl", LastSent("a"))
              /\ value["ob"] = Apply("inc", Apply("dbl", LastSent("a")))

\* b's handle was dropped, a.send(3) released: dbl ran once, b = 6, ob = 7
C15_Witness ==
    /\ scenario = "strong_keep" /\ BatchDone /\ "b" \notin handles
    /\ OneSend("a") /\ LastSent("a") = 3
    /\ CallsInto("b") = <<Call("dbl", 3, "b")>>
    /\ value["b"] = 6 /\ value["ob"] = 7

\* C19 -- forward derivation resumes on b = a.map(dbl): when the batch before
\* sent b directly, a released batch of sends to a only leaves b = dbl of the
\* value last sent to a.
C19_ForwardResumes ==
    (scenario = "chain" /\ BatchDone /\ "b" \in prev /\ OnlySends({"a"})) =>
        value["b"] = Apply("dbl", LastSent("a"))

\* b was sent in the batch before; then a.send(2), released: b = 4
C19_Witness ==
    /\ scenario = "chain" /\ BatchDone /\ "b" \in prev
    /\ OneSend("a") /\ LastSent("a") = 2
    /\ value["b"] = 4


DeadEnd(r) == r.src \notin Alive \/ r.new \notin Alive

\* the closures of the cells the tokens refer to
ClosuresOf(tokens) ==
    UNION {{react_fns[c][k] : k \in 1..Len(react_fns[c])} : c \in Cells(tokens)}

\* C27 -- dead links are a silent steady state.  In every step: a cell that is
\* not alive keeps its value and counter and gets no token; a write leaves only
\* live links in the written cell's successor and predecessor lists; and the
\* release of a guard all of whose cells' closures refer to a cell that is gone
\* changes no value.
C27_Step ==
    script = <<>> =>
        /\ \A c \in DOMAIN value \ Alive :
              /\ value'[c] = value[c] /\ dirty'[c] = dirty[c]
              /\ c \notin TokenCells(guards')
        /\ Len(guards') > Len(guards) =>
              LET r == guards'[Len(guards')].root IN
              /\ \A k \in 1..Len(successors'[r]) : successors'[r][k] \in Alive
              /\ \A k \in 1..Len(predecessors'[r]) : predecessors'[r][k] \in Alive
        /\ IsRelease =>
              LET g == guards[hist'[Len(hist')].val] IN
              (\A r \in ClosuresOf(g.tokens) : DeadEnd(r)) => value' = value

C28_RegistrationOrder ==
    /\ (scenario = "diamond" /\ BatchDone /\ OneSend("a")) =>
          SelectSeq(calls, LAMBDA e : e.new \in {"b", "c"}) =
              <<Call("dbl", LastSent("a"), "b"), Call("inc", LastSent("a"), "c")>>
    /\ (scenario = "depend" /\ BatchDone /\ OneSend("dep")) =>
          /\ value["od"] = Apply("inc", LastSent("dep"))
          /\ value["a"] = LastSent("dep")
    /\ \A r \in DOMAIN value :
          (BatchDone /\ OneSend(r)) =>
              /\ Len(Firings(r)) = 1 /\ Firings(r)[1].em
              /\ ~explicitly_modified[r]

\* dep.send(5) released: od = inc(5), computed before the swap gave 5 to a
C28_Witness ==
    /\ scenario = "depend" /\ BatchDone /\ OneSend("dep") /\ LastSent("dep") = 5
    /\ value["od"] = 6 /\ value["a"] = 5 /\ value["dep"] = 1

RECURSIVE SuccPaths(_, _), SuccPathsFrom(_, _, _)
\* the number of successor paths from x to c (the empty path when x = c)
SuccPaths(x, c) ==
    (IF x = c THEN 1 ELSE 0) + SuccPathsFrom(Retain(successors[x]), 1, c)
SuccPathsFrom(list, i, c) ==
    IF i > Len(list) THEN 0
    ELSE SuccPaths(list[i], c) + SuccPathsFrom(list, i + 1, c)

RECURSIVE PredPaths(_, _), PredPathsFrom(_, _, _)
\* the number of predecessor paths from x to c
PredPaths(x, c) ==
    (IF x = c THEN 1 ELSE 0) + PredPathsFrom(Retain(predecessors[x]), 1, c)
PredPathsFrom(list, i, c) ==
    IF i > Len(list) THEN 0
    ELSE PredPaths(list[i], c) + PredPathsFrom(list, i + 1, c)

\* the credit a write to r gives to c: one for the root, one per path
PathCredit(r, c) ==
    (IF r = c THEN 1 ELSE 0) + SuccPathsFrom(Retain(successors[r]), 1, c)
        + PredPathsFrom(Retain(predecessors[r]), 1, c)

Count(seq, x) == Cardinality({i \in 1..Len(seq) : seq[i] = x})

\* C29 -- per-path dirty credit: a write to r raises every cell's dirty counter
\* by the number of successor paths (predecessor paths) from r to it, the
\* root's by one, and the guard it returns holds that many tokens for the cell.
C29_Step ==
    Len(guards') > Len(guards) =>
        LET g == guards'[Len(guards')] IN
        \A c \in DOMAIN dirty :
            /\ dirty'[c] - dirty[c] = PathCredit(g.root, c)
            /\ Count(g.tokens, c) = PathCredit(g.root, c)

C29_PerPathCredit == [][C29_Step]_vars

\* the diamond right after a.send: d, on two paths, has two tokens
C29_Witness ==
    /\ scenario = "diamond" /\ Len(guards) = 1 /\ Len(hist) = 1
    /\ guards[1].root = "a"
    /\ dirty["d"] = 2 /\ Count(guards[1].tokens, "d") = 2
    /\ dirty["a"] = 1 /\ dirty["b"] = 1

\* the programs built from forward operators only
ForwardScenarios ==
    {"diamond", "chain", "combine", "map_then_combine", "combine_then_map",
     "multi", "extend", "lift", "depend", "weak_drop", "strong_keep"}

\* the cells from which c is reached through successor links
Upstream(c) ==
    {u \in DOMAIN value \ {c} : c \in Cells(collect_guards_recursive(u))}

\* C30 -- topological firing in forward-only graphs: whenever a cell fired, no
\* cell upstream of it held an outstanding token (every upstream counter was 0
\* at that moment).
C30_TopologicalFiring ==
    scenario \in ForwardScenarios =>
        \A i \in 1..Len(log) :
            \A u \in Upstream(log[i].cell) : log[i].dirty[u] = 0

\* the diamond after b.send and a.send, a's guard released last: d fired once,
\* after b and c, with no token left upstream
C30_Witness ==
    /\ scenario = "diamond" /\ BatchDone /\ Len(Writes) = 2 /\ WritesFirst
    /\ Wrote("a") /\ Wrote("b")
    /\ Len(Firings("d")) = 1
    /\ \A u \in {"a", "b", "c"} : Firings("d")[1].dirty[u] = 0
    /\ Upstream("d") = {"a", "b", "c"}


\* C26 -- reentrant writes keep the single firing.  z = a.map(f) where f sends
\* 9 to y = a.map(dbl): when a fires during the release of the guard of a
\* write to a, y still holds a token of that guard.  y never fires inside the
\* send f issues (every firing of y is at depth 0, with y's counter at 0), and
\* in a finished batch that wrote a, y fired exactly once; when no write of the
\* program followed the nested send, y fired with the value of the nested send
\* and still holds it.
C26_ReentrantSingleFiring ==
    scenario = "reentrant" =>
        /\ \A i \in 1..Len(log) :
              log[i].cell \in {"y", "oy"} =>
                  log[i].depth = 0 /\ log[i].dirty[log[i].cell] = 0
        /\ (BatchDone /\ Wrote("a")) => Len(Firings("y")) = 1
        /\ (BatchDone /\ Wrote("a") /\ WritesFirst) =>
              /\ Firings("y")[1].val = 9 /\ Firings("y")[1].em
              /\ value["y"] = 9 /\ value["oy"] = 10

\* a.send(2) released: a fired and sent 9 to y inside, then y, oy, z fired once
C26_Witness ==
    /\ scenario = "reentrant" /\ BatchDone /\ OneSend("a") /\ LastSent("a") = 2
    /\ [i \in 1..Len(log) |-> log[i].cell] = <<"a", "y", "oy", "z">>
    /\ value["y"] = 9 /\ value["oy"] = 10 /\ value["z"] = 3
    /\ <<Call("dbl", 2, "y"), Call("inc", 2, "z")>> =
          SelectSeq(calls, LAMBDA e : e.new \in {"y", "z"})


(***************************************************************************)
(* The thread-safe twin                                                    *)
(***************************************************************************)
\* the steps of a thread inside a reaction function
ReactionSteps == {"load", "compute", "store", "setflag", "first", "second"}

\* C22 -- thread-safe equivalence: when both threads have issued and released
\* their writes, the cell values are values the single-owner engine ends with
\* for some sequential order of the two writes.
C22_ThreadSafeEquivalence == SyncDone => value \in SequentialOutcomes

\* C23 -- exactly-once firing under concurrent release: a cell's reactions are
\* run at most once for each time its dirty counter is brought to zero.
C23_ExactlyOnceFiring ==
    threads # <<>> =>
        \A c \in DOMAIN value : sync.firings[c] <= sync.zeros[c]

\* C24 -- no lock across a reaction: a thread inside a reaction function of a
\* cell owns no lock of that cell.
C24_NoLockAcrossReaction ==
    threads # <<>> =>
        \A t \in Threads :
            threads[t].pc \in ReactionSteps =>
                \A l \in threads[t].holds : l[2] # Cur(threads[t])

\* C25 -- deadlock freedom: as long as a thread has not finished its send and
\* release, some thread can take a step.
C25_DeadlockFree ==
    (threads # <<>> /\ ~SyncDone) => \E t \in Threads : Ready(t)

\* one thread is inside a swap, owning a value mutex, and the other waits for
\* that mutex
C25_Witness ==
    /\ threads # <<>>
    /\ \E t, u \in Threads :
          /\ threads[t].pc = "second"
          /\ threads[u].pc # "done" /\ ~Ready(u)
          /\ Needs(threads[u]) \in threads[t].holds


(***************************************************************************)
(* Release order, guard combination, completion                            *)
(***************************************************************************)
Reverse(seq) == [i \in 1..Len(seq) |-> seq[Len(seq) + 1 - i]]

RECURSIVE KeepLast(_, _)
\* the tokens from position i on, without those whose cell has a later token
KeepLast(tokens, i) ==
    IF i > Len(tokens) THEN <<>>
    ELSE IF \E j \in (i + 1)..Len(tokens) : tokens[j] = tokens[i]
         THEN KeepLast(tokens, i + 1)
         ELSE <<tokens[i]>> \o KeepLast(tokens, i + 1)

\* the cells fired in the step, in order
NewFiredCells ==
    [i \in 1..(Len(log') - Len(log)) |-> log'[Len(log) + i].cell]

\* C31, as stated -- the tokens of a write are released in reverse construction
\* order: when the only outstanding guard is released, the cells fire in the
\* order of their last tokens in the reversed token list (the root last).
C31_ReverseStep ==
    (IsRelease /\ Len(guards) = 1) =>
        NewFiredCells = KeepLast(Reverse(guards[1].tokens), 1)

C31_ReverseRelease == [][C31_ReverseStep]_vars

\* C31, amended -- the tokens of a write are released in construction order:
\* when the only outstanding guard is released, the cells fire in the order of
\* their last tokens in the token list (the root's token is released first).
C31_Step ==
    (IsRelease /\ Len(guards) = 1) =>
        NewFiredCells = KeepLast(guards[1].tokens, 1)

C31_ConstructionOrderRelease == [][C31_Step]_vars

\* a -> b -> c after a.send(2) released: the firings are a, b, c
C31_Witness ==
    /\ scenario = "chain" /\ BatchDone /\ OneSend("a") /\ LastSent("a") = 2
    /\ [i \in 1..Len(log) |-> log[i].cell] = <<"a", "b", "c">>
    /\ value["b"] = 4 /\ value["c"] = 5


\* the step is a call of and
IsAnd == Len(hist') = Len(hist) + 1 /\ hist'[Len(hist')].ev = "and"

\* the cells, counters, flags of a release state
Outcome(st) == <<st.value, st.dirty, st.em>>

\* C32 -- guard combination: g1.and(g2) leaves the cells alone and yields one
\* guard holding the tokens of g1 followed by those of g2; releasing it leaves
\* every value, counter and flag as releasing g1 and then g2 leaves them, every
\* counter lowered by exactly the number of tokens of both.
C32_Step ==
    IsAnd =>
        LET i      == hist'[Len(hist')].val[1]
            j      == hist'[Len(hist')].val[2]
            t1     == guards[i].tokens
            t2     == guards[j].tokens
            others == handles \cup Pinned \cup Captured
                          \cup TokenCells(RemoveBoth(guards, i, j))
            joined == DropGuard(DropState(others), guards'[Len(guards')].tokens)
            first  == DropGuard(DropState(others \cup Cells(t2)), t1)
            second == DropGuard([first EXCEPT !.held = others, !.alive = others], t2)
        IN  /\ guards'[Len(guards')].tokens = t1 \o t2
            /\ Len(guards') = Len(guards) - 1
            /\ <<value', dirty', explicitly_modified'>> =
                  <<value, dirty, explicitly_modified>>
            /\ Outcome(joined) = Outcome(second)
            /\ \A c \in DOMAIN dirty :
                  joined.dirty[c] = dirty[c] - Count(t1, c) - Count(t2, c)

C32_GuardCombination == [][C32_Step]_vars

\* a.send(2).and(b.send(1)) on b = a.promap(dbl, half), released: one guard
\* held the four tokens
C32_Witness ==
    /\ scenario = "promap" /\ BatchDone
    /\ Len(hist) = 4
    /\ hist[1] = Event("send", "a", 2) /\ hist[2] = Event("send", "b", 1)
    /\ hist[3].ev = "and" /\ hist[3].val = <<1, 2>>
    /\ hist[4].ev = "drop"
    /\ \A c \in DOMAIN dirty : dirty[c] = 0

\* no guard is outstanding and no counter is above zero
C33_Cleared == guards = <<>> /\ \A c \in DOMAIN dirty : dirty[c] = 0

\* C33 -- a batch runs to completion: the walk of a write to any cell of the
\* graph ends; the release of a guard is one uninterruptible run of the drop
\* that releases every one of its tokens (each counter goes down by the number
\* of the guard's tokens for the cell) and removes the guard; and when the
\* last guard has gone no counter is left above zero.
C33_Step ==
    /\ script = <<>> => \A c \in DOMAIN value : Len(collect_guards(c)) >= 1
    /\ IsRelease =>
          LET g == guards[hist'[Len(hist')].val] IN
          /\ \A c \in DOMAIN dirty : dirty'[c] = dirty[c] - Count(g.tokens, c)
          /\ guards' = RemoveAt(guards, hist'[Len(hist')].val)
          /\ guards' = <<>> => \A c \in DOMAIN dirty : dirty'[c] = 0

C33_RunsToCompletion == [][C33_Step]_vars

\* a -> b -> c: a.send(1) and b.send(3), five tokens, all released
C33_Witness ==
    /\ scenario = "chain" /\ BatchDone /\ WritesFirst
    /\ Wrote("a") /\ Wrote("b") /\ Len(Writes) = 2
    /\ Cardinality({i \in 1..Len(hist) : hist[i].ev = "drop"}) = 2
    /\ C33_Cleared


\* C34 -- list locks are released before recursing: a thread that is about to
\* visit a linked cell, or is past its walk, owns no write lock of a successor
\* or predecessor list.
C34_ListLocksReleasedBeforeVisit ==
    threads # <<>> =>
        \A t \in Threads :
            \A l \in threads[t].holds : l[1] \notin {"successors", "predecessors"}

\* both threads are inside their walks, each has collected the links of its
\* root and is about to mark a linked cell
C34_Witness ==
    /\ threads # <<>>
    /\ \A t \in Threads : threads[t].pc = "mark" /\ threads[t].k = 2
    /\ \E c \in DOMAIN dirty : dirty[c] = 2


\* the tokens of cell c held by the guards from position i on
RECURSIVE Outstanding(_, _)
Outstanding(c, i) ==
    IF i > Len(guards) THEN 0
    ELSE Count(guards[i].tokens, c) + Outstanding(c, i + 1)

\* C37 -- the counter equals the outstanding tokens: each cell's dirty counter
\* is the number of tokens of that cell held by the guards not yet released,
\* it is never negative, and every firing of a cell happened with its counter
\* at 0, i.e. at the release of its last outstanding token.
C37_CounterEqualsOutstandingTokens ==
    /\ \A c \in DOMAIN dirty : dirty[c] = Outstanding(c, 1) /\ dirty[c] >= 0
    /\ \A i \in 1..Len(log) : log[i].dirty[log[i].cell] = 0

\* two guards are outstanding, a cell is held by both, and a cell has fired
C37_Witness ==
    /\ Len(guards) = 2
    /\ \E c \in DOMAIN dirty : dirty[c] = 2
    /\ log # <<>>


\* the closure kinds that exchange a source's value with the derived cell's
SwapKinds == {"combine", "extend", "lift", "depend"}

\* the cells that are a source of a swapping reaction and the target of none
PureSources ==
    {r.src : r \in {q \in AllReactions : q.kind \in SwapKinds}}
        \ {r.new : r \in AllReactions}

\* C38 -- sources are only read by forward reactions: after a batch, a cell
\* written only by direct sends, source of combine, extend, lift_from_array or
\* depend reactions and target of none, holds the value of its last send.
C38_SourcesKeepSentValue ==
    BatchDone =>
        \A c \in PureSources :
            (/\ Wrote(c)
             /\ \A i \in 1..Len(hist) :
                    (IsWrite(hist[i]) /\ hist[i].cell = c) => hist[i].ev = "send")
            => value[c] = LastSent(c)


\* no closure of the graph exchanges values with its own cell
NoSwaps == \A r \in AllReactions : r.kind \notin SwapKinds

\* C39 -- settled before observed: after a batch whose writes were all issued
\* before any release, every cell that fired holds the value its last firing
\* of the batch was run against (graphs whose closures write other cells only).
C39_SettledBeforeObserved ==
    (BatchDone /\ WritesFirst /\ NoSwaps) =>
        \A c \in DOMAIN value :
            Firings(c) # <<>> => value[c] = Firings(c)[Len(Firings(c))].val


\* the values and flags left by releasing the outstanding guard i and then
\* the outstanding guard j, the only two
ReleasedInOrder(i, j) ==
    LET others == handles \cup Pinned \cup Captured
        first  == DropGuard(DropState(others \cup Cells(guards[j].tokens)),
                            guards[i].tokens)
        second == DropGuard([first EXCEPT !.held = others, !.alive = others],
                            guards[j].tokens)
    IN  <<second.value, second.em>>

\* two writes to distinct cells have been issued and neither guard released
TwoGuardsHeld ==
    /\ script = <<>> /\ Len(guards) = 2 /\ Len(hist) = 2
    /\ IsWrite(hist[1]) /\ IsWrite(hist[2])
    /\ hist[1].cell # hist[2].cell

\* C40 -- release-order independence: with the guards of two writes to
\* distinct cells both outstanding, releasing the first then the second leaves
\* the same values and flags as releasing the second then the first.
C40_ReleaseOrderIndependence ==
    TwoGuardsHeld => ReleasedInOrder(1, 2) = ReleasedInOrder(2, 1)


\* the notifications of signal s in the run
NotesOf(s) == SelectSeq(lib.notes, LAMBDA n : n.signal = s)

\* the sends of the run were all deferred, and all issued before any release
LibOneBatch ==
    /\ lib.events # <<>> /\ lib.depth = 0
    /\ \A i \in 1..Len(lib.events) : lib.events[i].ev # "send_now"
    /\ \A i, j \in 1..Len(lib.events) :
          (i < j /\ lib.events[i].ev = "drop") => lib.events[j].ev = "drop"

\* the signals written in the run
LibSent == {lib.events[i].signal : i \in {j \in 1..Len(lib.events) : lib.events[j].ev # "drop"}}

\* the value the last write of the run left in s
LibLastSent(s) ==
    LET idx == {i \in 1..Len(lib.events) :
                    lib.events[i].ev # "drop" /\ lib.events[i].signal = s}
    IN  lib.events[CHOOSE i \in idx : \A j \in idx : j <= i].val

\* C35 -- deferred notification in the global-batch variant: the batch depth
\* is the number of outstanding BatchGuards; send and send_with notify nobody;
\* a guard release notifies only when it brings the depth to 0; and a batch
\* of sends to one signal yields exactly one notification of it, carrying the
\* last value sent.
C35_DeferredNotification ==
    /\ lib.depth = Len(lib.guards)
    /\ \A i \in 1..Len(lib.events) :
          LET e      == lib.events[i]
              before == IF i = 1 THEN 0 ELSE lib.events[i - 1].notes
          IN  /\ e.ev \in {"send", "send_with"} => e.notes = before
              /\ (e.ev = "drop" /\ e.notes > before) => e.depth = 0
    /\ \A s \in LibSignals :
          (LibOneBatch /\ LibSent = {s}) =>
              NotesOf(s) = <<[signal |-> s, value |-> LibLastSent(s)]>>

\* test_batch: signal.send(1), signal.send(2), both guards dropped: one
\* notification of signal, with 2, and mapped follows
C35_Witness ==
    /\ scenario = "test_batch" /\ LibOneBatch
    /\ Len(lib.events) = 4
    /\ lib.events[1].ev = "send" /\ lib.events[1].val = 1
    /\ lib.events[2].ev = "send" /\ lib.events[2].val = 2
    /\ NotesOf("signal") = <<[signal |-> "signal", value |-> 2]>>
    /\ lib.value["mapped"] = 2

\* C36 -- the global-batch variant notifies every written signal: when the
\* depth is back to 0 after a batch, every signal sent in it has been notified
\* once and its needs_notification flag is clear.
C36_EveryWrittenSignalNotified ==
    LibOneBatch =>
        \A s \in LibSent :
            /\ Len(NotesOf(s)) = 1
            /\ ~lib.needs_notification[s]

====
